---------------------------- MODULE Spec2Model ----------------------------
(***************************************************************************)
(* Blood-donation inventory platform: the relational tables the code       *)
(* writes (blood_inventory, blood_requests, donations, users) and the      *)
(* handlers that write them, each split at its awaited database calls so   *)
(* that concurrent callers interleave statement by statement.              *)
(*                                                                         *)
(* Storage semantics (PostgreSQL through Prisma, no isolationLevel passed, *)
(* hence READ COMMITTED): a statement reads the latest committed rows; a   *)
(* write inside prisma.$transaction is invisible to others until commit    *)
(* and holds a row lock until commit or rollback; an UPDATE that waited    *)
(* for a lock applies to the row version committed by the lock holder.     *)
(***************************************************************************)
EXTENDS Integers, FiniteSets, Sequences, TLC

(***************************************************************************)
(* Bounds of the model.                                                    *)
(***************************************************************************)
MaxCallers == 2         \* concurrent callers (API handlers / script runs)
MaxQty == 3             \* largest initial quantity of an inventory row
MaxNeed == 2            \* largest quantityNeeded a caller asks for
MaxRequests == 3        \* blood_requests rows ever created (ids 1..MaxRequests)
MaxDonated == 2         \* units donations add to one inventory row
MaxTicks == 2           \* times the clock advances
DaysPerTick == 45       \* days the clock advances by at a time

Callers == 1..MaxCallers

(***************************************************************************)
(* Schema values.                                                          *)
(***************************************************************************)
NULL_DATE == 0          \* a nullable TIMESTAMP column holding no value

BloodBanks == {"bb1", "bb2"}
BloodGroups == {"O_POSITIVE", "A_POSITIVE"}
RequestStatus == {"PENDING", "APPROVED", "FULFILLED", "REJECTED", "CANCELLED"}
DonationStatus == {"SCHEDULED", "COMPLETED", "CANCELLED", "NO_SHOW"}
Users == {"u1", "u2"}
UNDEFINED == "undefined"   \* a field the request body does not carry
NO_SERIAL == "NULL"        \* donations.unitSerialNumber holding NULL
UnitSerials == {"UNIT-2025-001"}
DemoPatientAge == 45       \* the patient of the demo request
NULL_ID == "NULL"          \* a nullable foreign-key column holding NULL
Cities == {"Mumbai", "New Delhi"}

\* a verified, active donor who has not donated yet
DonorRow(bloodGroup, city) ==
    [role |-> "DONOR", isActive |-> TRUE, isVerified |-> TRUE, city |-> city,
     bloodGroup |-> bloodGroup, lastDonation |-> NULL_DATE]

\* the seeded donors
InitUsers ==
    [u \in Users |-> IF u = "u1" THEN DonorRow("A_POSITIVE", "New Delhi")
                                 ELSE DonorRow("O_POSITIVE", "Mumbai")]

\* the seeded blood banks, verified and active, and one hospital
InitBloodBanks ==
    {[id |-> "bb1", city |-> "Mumbai", isActive |-> TRUE, isVerified |-> TRUE,
      managerId |-> NULL_ID],
     [id |-> "bb2", city |-> "New Delhi", isActive |-> TRUE, isVerified |-> TRUE,
      managerId |-> NULL_ID]}

InitHospitals == {[id |-> "h1", contactPersonId |-> NULL_ID]}

VARIABLES
    bloodInventory,   \* committed blood_inventory rows
    bloodRequests,    \* committed blood_requests rows
    donations,        \* committed donations rows
    users,            \* committed users rows, by user id
    bloodBanks,       \* committed blood_banks rows
    hospitals,        \* committed hospitals rows
    now,              \* the clock read by new Date()
    proc,             \* per caller: the handler it is in and where
    response          \* what the last finished call returned, and to whom

vars == <<bloodInventory, bloodRequests, donations, users, bloodBanks, hospitals,
         now, proc, response>>

Idle == [op |-> "idle", pc |-> "idle"]
NoResponse == [ok |-> TRUE, code |-> "NONE"]

(***************************************************************************)
(* blood_inventory: rows and the unique index on (bloodBankId, bloodGroup).*)
(***************************************************************************)
InventoryRows(rows, b, g) ==
    {r \in rows : r.bloodBankId = b /\ r.bloodGroup = g}

\* prisma.bloodInventory.findUnique({where: {bloodBankId_bloodGroup}})
findUniqueInventory(rows, b, g) ==
    IF InventoryRows(rows, b, g) = {}
    THEN [found |-> FALSE, quantity |-> 0]
    ELSE [found |-> TRUE,
          quantity |-> (CHOOSE r \in InventoryRows(rows, b, g) : TRUE).quantity]

\* UPDATE blood_inventory SET quantity = quantity + delta WHERE key = (b, g)
updateInventoryQuantity_Absolute(rows, b, g, delta) ==
    {IF r.bloodBankId = b /\ r.bloodGroup = g
     THEN [r EXCEPT !.quantity = delta] ELSE r : r \in rows}

updateInventoryQuantity(rows, b, g, delta) ==
    {IF r.bloodBankId = b /\ r.bloodGroup = g
     THEN [r EXCEPT !.quantity = @ + delta] ELSE r : r \in rows}

FreshId(rows) ==
    CHOOSE i \in 1..(Cardinality(rows) + 1) : \A r \in rows : r.id # i

(***************************************************************************)
(* Row locks taken by statements of open transactions.                     *)
(***************************************************************************)
HoldsInventoryLock(o, b, g) ==
    \/ /\ proc[o].op = "createBloodRequestWithInventoryUpdate"
       /\ proc[o].pc = "commit"
       /\ proc[o].requestData.bloodBankId = b
       /\ proc[o].requestData.bloodGroup = g
    \/ /\ proc[o].op = "completeDonation"
       /\ proc[o].inventoryWrite # "none"
       /\ proc[o].donation.bloodBankId = b
       /\ proc[o].donation.bloodGroup = g

InventoryLockedByOther(c, b, g) ==
    \E o \in Callers \ {c} : HoldsInventoryLock(o, b, g)

\* the donation row, and the unit serial written to it, stay locked from
\* tx.donation.update to the end of the transaction
InDonationTx(o) ==
    /\ proc[o].op = "completeDonation"
    /\ proc[o].pc \in {"upsertInventory", "upsertCreate", "updateUser",
                      "sendUserUpdate"}

DonationLockedByOther(c, id) ==
    \E o \in Callers \ {c} : InDonationTx(o) /\ proc[o].id = id

SerialPendingByOther(c, serial) ==
    \E o \in Callers \ {c} : InDonationTx(o) /\ proc[o].body.unitSerialNumber = serial

\* open transactions that will insert a blood_requests row when they commit
OpenCreates ==
    {o \in Callers : proc[o].op = "createBloodRequestWithInventoryUpdate"}

(***************************************************************************)
(* createBloodRequestWithInventoryUpdate: check, create, decrement inside  *)
(* one interactive transaction.                                            *)
(***************************************************************************)
RequestData == [requesterId : {"u2"}, bloodBankId : BloodBanks,
                bloodGroup : BloodGroups, quantityNeeded : 1..MaxNeed,
                patientAge : {DemoPatientAge}]

\* the row tx.bloodRequest.create inserts
NewApprovedRequest(id, requestData) ==
    [id |-> id,
     requesterId |-> requestData.requesterId,
     bloodBankId |-> requestData.bloodBankId,
     bloodGroup |-> requestData.bloodGroup,
     quantityNeeded |-> requestData.quantityNeeded,
     patientAge |-> requestData.patientAge,
     status |-> "APPROVED",
     approvedAt |-> NULL_DATE,
     fulfilledAt |-> NULL_DATE]

\* if (inventory.quantity < requestData.quantityNeeded)
InsufficientInventory_OrEqual(inventory, quantityNeeded) ==
    inventory.quantity <= quantityNeeded

InsufficientInventory(inventory, quantityNeeded) ==
    inventory.quantity < quantityNeeded

\* Step 1: tx.bloodInventory.findUnique and the two throws; then Step 2:
\* tx.bloodRequest.create, whose row stays private to the transaction
createRequest_CheckAndCreate(c, requestData) ==
    /\ proc[c] = Idle
    /\ Cardinality(bloodRequests) + Cardinality(OpenCreates) < MaxRequests
    /\ LET inventory == findUniqueInventory(bloodInventory,
                            requestData.bloodBankId, requestData.bloodGroup)
       IN  IF ~inventory.found
           THEN /\ response' = [ok |-> FALSE, code |-> "NO_INVENTORY_FOUND",
                                bloodGroup |-> requestData.bloodGroup]
                /\ proc' = proc
           ELSE IF InsufficientInventory(inventory, requestData.quantityNeeded)
           THEN /\ response' = [ok |-> FALSE, code |-> "INSUFFICIENT_INVENTORY",
                                available |-> inventory.quantity,
                                requested |-> requestData.quantityNeeded]
                /\ proc' = proc
           ELSE /\ proc' = [proc EXCEPT ![c] =
                        [op |-> "createBloodRequestWithInventoryUpdate",
                         pc |-> "step3", requestData |-> requestData]]
                /\ response' = response
    /\ UNCHANGED <<bloodInventory, bloodRequests, donations, users, now, bloodBanks, hospitals>>

\* Step 3: tx.bloodInventory.update({data: {quantity: {decrement}}}); waits
\* for the row lock, then decrements whatever is committed by then
createRequest_Decrement(c) ==
    /\ proc[c].op = "createBloodRequestWithInventoryUpdate"
    /\ proc[c].pc = "step3"
    /\ ~InventoryLockedByOther(c, proc[c].requestData.bloodBankId,
                               proc[c].requestData.bloodGroup)
    /\ proc' = [proc EXCEPT ![c].pc = "commit"]
    /\ UNCHANGED <<bloodInventory, bloodRequests, donations, users, now, response, bloodBanks, hospitals>>

\* the callback returns: the transaction commits both writes
createRequest_Commit(c) ==
    /\ proc[c].op = "createBloodRequestWithInventoryUpdate"
    /\ proc[c].pc = "commit"
    /\ bloodInventory' = updateInventoryQuantity(bloodInventory,
            proc[c].requestData.bloodBankId, proc[c].requestData.bloodGroup,
            0 - proc[c].requestData.quantityNeeded)
    /\ bloodRequests' = bloodRequests \cup
            {NewApprovedRequest(FreshId(bloodRequests), proc[c].requestData)}
    /\ response' = [ok |-> TRUE, code |-> "COMMITTED"]
    /\ proc' = [proc EXCEPT ![c] = Idle]
    /\ UNCHANGED <<donations, users, now, bloodBanks, hospitals>>

\* an error thrown inside the callback after the create or after the decrement
\* (a failing statement, the transaction timeout, a lost connection):
\* rollback, then the catch block rethrows
createRequest_FaultKeepsRequest(c) ==
    /\ proc[c].op = "createBloodRequestWithInventoryUpdate"
    /\ proc[c].pc \in {"step3", "commit"}
    /\ proc' = [proc EXCEPT ![c] = Idle]
    /\ response' = [ok |-> FALSE, code |-> "ROLLED_BACK", at |-> proc[c].pc]
    /\ bloodRequests' = bloodRequests \cup
            {NewApprovedRequest(FreshId(bloodRequests), proc[c].requestData)}
    /\ UNCHANGED <<bloodInventory, donations, users, now, bloodBanks, hospitals>>

createRequest_Fault(c) ==
    /\ proc[c].op = "createBloodRequestWithInventoryUpdate"
    /\ proc[c].pc \in {"step3", "commit"}
    /\ proc' = [proc EXCEPT ![c] = Idle]
    /\ response' = [ok |-> FALSE, code |-> "ROLLED_BACK", at |-> proc[c].pc]
    /\ UNCHANGED <<bloodInventory, bloodRequests, donations, users, now, bloodBanks, hospitals>>

createBloodRequestWithInventoryUpdate(c) ==
    \/ \E requestData \in RequestData : createRequest_CheckAndCreate(c, requestData)
    \/ createRequest_Decrement(c)
    \/ createRequest_Commit(c)
    \/ createRequest_Fault(c)

(***************************************************************************)
(* approveBloodRequest: three separate statements, no transaction.         *)
(***************************************************************************)
findUniqueRequest(rows, id) ==
    IF \E r \in rows : r.id = id
    THEN [found |-> TRUE, row |-> CHOOSE r \in rows : r.id = id]
    ELSE [found |-> FALSE]

\* prisma.bloodRequest.findUnique and the 404
approve_FindRequest(c, id, bloodBankId) ==
    /\ proc[c] = Idle
    /\ LET bloodRequest == findUniqueRequest(bloodRequests, id)
       IN  IF ~bloodRequest.found
           THEN /\ response' = [ok |-> FALSE, code |-> "NOT_FOUND"]
                /\ proc' = proc
           ELSE /\ proc' = [proc EXCEPT ![c] =
                        [op |-> "approveBloodRequest", pc |-> "findInventory",
                         id |-> id, bloodBankId |-> bloodBankId,
                         bloodGroup |-> bloodRequest.row.bloodGroup,
                         quantityNeeded |-> bloodRequest.row.quantityNeeded]]
                /\ response' = response
    /\ UNCHANGED <<bloodInventory, bloodRequests, donations, users, now, bloodBanks, hospitals>>

\* prisma.bloodInventory.findUnique and the 400
approve_FindInventory(c) ==
    /\ proc[c].op = "approveBloodRequest"
    /\ proc[c].pc = "findInventory"
    /\ LET inventory == findUniqueInventory(bloodInventory, proc[c].bloodBankId,
                            proc[c].bloodGroup)
       IN  IF ~inventory.found
              \/ inventory.quantity < proc[c].quantityNeeded
           THEN /\ response' = [ok |-> FALSE, code |-> "INSUFFICIENT_BLOOD_INVENTORY"]
                /\ proc' = [proc EXCEPT ![c] = Idle]
           ELSE /\ proc' = [proc EXCEPT ![c].pc = "update"]
                /\ response' = response
    /\ UNCHANGED <<bloodInventory, bloodRequests, donations, users, now, bloodBanks, hospitals>>

\* prisma.bloodRequest.update; a vanished row (P2025) falls to the catch block
approve_Update(c) ==
    /\ proc[c].op = "approveBloodRequest"
    /\ proc[c].pc = "update"
    /\ IF \E r \in bloodRequests : r.id = proc[c].id
       THEN /\ bloodRequests' =
                  {IF r.id = proc[c].id
                   THEN [r EXCEPT !.status = "APPROVED",
                                  !.bloodBankId = proc[c].bloodBankId,
                                  !.approvedAt = now]
                   ELSE r : r \in bloodRequests}
            /\ response' = [ok |-> TRUE, code |-> "APPROVED"]
       ELSE /\ bloodRequests' = bloodRequests
            /\ response' = [ok |-> FALSE, code |-> "INTERNAL_ERROR"]
    /\ proc' = [proc EXCEPT ![c] = Idle]
    /\ UNCHANGED <<bloodInventory, donations, users, now, bloodBanks, hospitals>>

approveBloodRequest(c) ==
    \/ \E id \in 1..MaxRequests, bloodBankId \in BloodBanks :
          approve_FindRequest(c, id, bloodBankId)
    \/ approve_FindInventory(c)
    \/ approve_Update(c)

(***************************************************************************)
(* The request-side specification.                                         *)
(***************************************************************************)
\* (bb1, O_POSITIVE) holds any quantity, (bb2, O_POSITIVE) is empty, and no
\* A_POSITIVE row exists yet
InitInventory ==
    {{[id |-> 1, bloodBankId |-> "bb1", bloodGroup |-> "O_POSITIVE", quantity |-> q],
      [id |-> 2, bloodBankId |-> "bb2", bloodGroup |-> "O_POSITIVE", quantity |-> 0]}
        : q \in 0..MaxQty}

\* one request, as POST /api/blood-requests leaves it, addressed to bb2
InitRequests ==
    {[id |-> 1, requesterId |-> "u2", bloodBankId |-> "bb2",
      bloodGroup |-> "O_POSITIVE",
      quantityNeeded |-> MaxNeed, patientAge |-> DemoPatientAge,
      status |-> "PENDING",
      approvedAt |-> NULL_DATE, fulfilledAt |-> NULL_DATE]}

Init ==
    /\ bloodInventory \in InitInventory
    /\ bloodRequests = InitRequests
    /\ donations = {}
    /\ users = InitUsers
    /\ bloodBanks = InitBloodBanks
    /\ hospitals = InitHospitals
    /\ now = 1
    /\ proc = [c \in Callers |-> Idle]
    /\ response = NoResponse

Next ==
    \E c \in Callers :
        \/ createBloodRequestWithInventoryUpdate(c)
        \/ approveBloodRequest(c)

Spec == Init /\ [][Next]_vars

(***************************************************************************)
(* Properties of the request side.                                         *)
(***************************************************************************)
Quantity(rows, b, g) == findUniqueInventory(rows, b, g).quantity

RECURSIVE SumNeeded(_)
SumNeeded(rows) ==
    IF rows = {} THEN 0
    ELSE LET r == CHOOSE r \in rows : TRUE
         IN  r.quantityNeeded + SumNeeded(rows \ {r})

CreatedRequests == {r \in bloodRequests' : \A q \in bloodRequests : q.id # r.id}

CreateCommits(c) ==
    /\ proc[c].op = "createBloodRequestWithInventoryUpdate"
    /\ proc'[c] = Idle
    /\ response'.code = "COMMITTED"

CreateRollsBack(c) ==
    /\ proc[c].op = "createBloodRequestWithInventoryUpdate"
    /\ proc'[c] = Idle
    /\ response'.code = "ROLLED_BACK"

ApproveSucceeds(c) ==
    /\ proc[c].op = "approveBloodRequest"
    /\ proc'[c] = Idle
    /\ response'.code = "APPROVED"

\* C1: whatever the interleaving of the decrementing transactions, no inventory
\* quantity is ever negative (so the successful decrements never sum to more
\* than the starting quantity).
C1_QuantityNeverNegative ==
    \A r \in bloodInventory : r.quantity >= 0

C4_ApproveDecrementsAndFulfils ==
    [][ /\ \A c \in Callers : ApproveSucceeds(c) =>
              \E r \in bloodRequests' :
                  /\ r.id = proc[c].id
                  /\ r.status = "FULFILLED"
                  /\ r.fulfilledAt # NULL_DATE
                  /\ r.bloodBankId = proc[c].bloodBankId
                  /\ Quantity(bloodInventory', proc[c].bloodBankId, r.bloodGroup)
                       = Quantity(bloodInventory, proc[c].bloodBankId, r.bloodGroup)
                           - r.quantityNeeded
        /\ \A c \in Callers : CreateCommits(c) =>
              \E r \in CreatedRequests :
                  /\ r.status = "FULFILLED"
                  /\ r.fulfilledAt # NULL_DATE
                  /\ r.bloodBankId = proc[c].requestData.bloodBankId
                  /\ Quantity(bloodInventory', r.bloodBankId, r.bloodGroup)
                       = Quantity(bloodInventory, r.bloodBankId, r.bloodGroup)
                           - r.quantityNeeded
      ]_vars

CheckFailed ==
    /\ response' # response
    /\ response'.code \in {"NO_INVENTORY_FOUND", "INSUFFICIENT_INVENTORY",
                           "INSUFFICIENT_BLOOD_INVENTORY"}

findUniqueDonation(rows, id) ==
    IF \E r \in rows : r.id = id
    THEN [found |-> TRUE, row |-> CHOOSE r \in rows : r.id = id]
    ELSE [found |-> FALSE, row |-> [id |-> id]]

SerialTaken_NotEnforced(rows, id, serial) == FALSE

\* donations_unitSerialNumber_key: another row already carries the serial
SerialTaken(rows, id, serial) ==
    \E r \in rows : r.id # id /\ r.unitSerialNumber = serial

\* blood_inventory_bloodBankId_bloodGroup_key rejects an INSERT for (b, g)
UniqueViolation_NotEnforced(rows, b, g) == FALSE

UniqueViolation(rows, b, g) == InventoryRows(rows, b, g) # {}

\* the quantity createInventoryRecordsBad gives each row it creates
DemoQuantity == 50

NewInventoryRow(rows, b, g, q) ==
    [id |-> FreshId(rows), bloodBankId |-> b, bloodGroup |-> g, quantity |-> q]

(***************************************************************************)
(* completeDonation: findUnique outside the transaction, then              *)
(* donation.update, bloodInventory.upsert and user.update inside one.      *)
(***************************************************************************)
DonationIds == {"d1", "d2", "missing"}
CompleteBody == [isEligible : BOOLEAN, unitSerialNumber : UnitSerials \cup {UNDEFINED}]

\* if (isEligible) { upsert; user.update }
AfterDonationUpdate_Always(body) == "upsertInventory"

AfterDonationUpdate(body) ==
    IF body.isEligible THEN "upsertInventory" ELSE "commit"

\* units the open and the committed completions have added to the row (b, g),
\* counted from an empty row or from a row the demo script created
Donated(b, g) ==
    LET q == findUniqueInventory(bloodInventory, b, g).quantity
    IN (IF q >= DemoQuantity THEN q - DemoQuantity ELSE q)
       + Cardinality({o \in Callers :
              /\ proc[o].op = "completeDonation"
              /\ proc[o].body.isEligible
              /\ proc[o].donation.bloodBankId = b
              /\ proc[o].donation.bloodGroup = g})

\* const donation = await prisma.donation.findUnique(...); 404 when missing
completeDonation_FindDonation(c, id, body) ==
    /\ proc[c] = Idle
    /\ LET donation == findUniqueDonation(donations, id)
       IN (donation.found /\ body.isEligible) =>
              Donated(donation.row.bloodBankId, donation.row.bloodGroup) < MaxDonated
    /\ LET donation == findUniqueDonation(donations, id)
       IN IF ~donation.found
          THEN /\ response' = [ok |-> FALSE, code |-> "DONATION_NOT_FOUND"]
               /\ UNCHANGED proc
          ELSE /\ proc' = [proc EXCEPT ![c] =
                      [op |-> "completeDonation", pc |-> "updateDonation",
                       id |-> id, body |-> body,
                       donation |-> [bloodBankId |-> donation.row.bloodBankId,
                                     bloodGroup |-> donation.row.bloodGroup,
                                     donorId |-> donation.row.donorId],
                       donationDate |-> NULL_DATE,
                       inventoryWrite |-> "none",
                       lastDonation |-> NULL_DATE]]
               /\ UNCHANGED response
    /\ UNCHANGED <<bloodInventory, bloodRequests, donations, users, now, bloodBanks, hospitals>>

\* what the transaction's inventory statement does to the table at commit
upsertInventoryWrite_Double(rows, write, b, g) ==
    CASE write = "insert" -> rows \cup {NewInventoryRow(rows, b, g, 2)}
      [] write = "increment" -> updateInventoryQuantity(rows, b, g, 2)
      [] OTHER -> rows

upsertInventoryWrite(rows, write, b, g) ==
    CASE write = "insert" -> rows \cup {NewInventoryRow(rows, b, g, 1)}
      [] write = "increment" -> updateInventoryQuantity(rows, b, g, 1)
      [] OTHER -> rows

\* what tx.donation.update does to the donations table
updateDonationCompleted(rows, id, donationDate, body) ==
    {IF r.id = id
     THEN [r EXCEPT !.status = "COMPLETED",
                    !.donationDate = donationDate,
                    !.isEligible = body.isEligible,
                    !.unitSerialNumber =
                        IF body.unitSerialNumber = UNDEFINED
                        THEN @ ELSE body.unitSerialNumber]
     ELSE r : r \in rows}

\* the callback returns after its last statement and the transaction
\* commits: every pending write becomes visible in this one step
completeDonation_Commit(c, donationDate, lastDonation) ==
    /\ donations' = updateDonationCompleted(donations, proc[c].id,
                        donationDate, proc[c].body)
    /\ bloodInventory' = upsertInventoryWrite(bloodInventory,
                             proc[c].inventoryWrite,
                             proc[c].donation.bloodBankId,
                             proc[c].donation.bloodGroup)
    /\ users' = IF lastDonation = NULL_DATE THEN users
                ELSE [users EXCEPT ![proc[c].donation.donorId].lastDonation =
                          lastDonation]
    /\ proc' = [proc EXCEPT ![c] = Idle]
    /\ response' = [ok |-> TRUE, code |-> "DONATION_COMPLETED"]
    /\ UNCHANGED <<bloodRequests, now, bloodBanks, hospitals>>

\* tx.donation.update: waits for the row and for a pending writer of the same
\* serial; a serial another committed row carries aborts the transaction.
\* When isEligible is not set it is the last statement of the callback.
completeDonation_UpdateDonation(c) ==
    /\ proc[c].op = "completeDonation"
    /\ proc[c].pc = "updateDonation"
    /\ ~DonationLockedByOther(c, proc[c].id)
    /\ proc[c].body.unitSerialNumber # UNDEFINED
          => ~SerialPendingByOther(c, proc[c].body.unitSerialNumber)
    /\ IF /\ proc[c].body.unitSerialNumber # UNDEFINED
          /\ SerialTaken(donations, proc[c].id, proc[c].body.unitSerialNumber)
       THEN /\ proc' = [proc EXCEPT ![c] = Idle]
            /\ response' = [ok |-> FALSE, code |-> "FAILED_TO_COMPLETE",
                            cause |-> "P2002_unitSerialNumber"]
            /\ UNCHANGED <<bloodInventory, bloodRequests, donations, users, now, bloodBanks, hospitals>>
       ELSE IF AfterDonationUpdate(proc[c].body) = "commit"
            THEN completeDonation_Commit(c, now, NULL_DATE)
            ELSE /\ proc' = [proc EXCEPT
                               ![c].pc = AfterDonationUpdate(proc[c].body),
                               ![c].donationDate = now]
                 /\ UNCHANGED <<bloodInventory, bloodRequests, donations,
                                users, now, response, bloodBanks, hospitals>>

\* tx.bloodInventory.upsert. On an existing row it is an UPDATE that waits
\* for the row lock. On a missing row it is either one INSERT .. ON CONFLICT
\* statement, or a SELECT followed by a separate INSERT.
completeDonation_UpsertInventory(c) ==
    /\ proc[c].op = "completeDonation"
    /\ proc[c].pc = "upsertInventory"
    /\ LET b == proc[c].donation.bloodBankId
           g == proc[c].donation.bloodGroup
       IN IF findUniqueInventory(bloodInventory, b, g).found
          THEN /\ ~InventoryLockedByOther(c, b, g)
               /\ proc' = [proc EXCEPT ![c].pc = "updateUser",
                                       ![c].inventoryWrite = "increment"]
          ELSE \/ /\ ~InventoryLockedByOther(c, b, g)
                  /\ proc' = [proc EXCEPT ![c].pc = "updateUser",
                                          ![c].inventoryWrite = "insert"]
               \/ proc' = [proc EXCEPT ![c].pc = "upsertCreate"]
    /\ UNCHANGED <<bloodInventory, bloodRequests, donations, users, now, response, bloodBanks, hospitals>>

\* the INSERT of a SELECT-then-INSERT upsert: waits for a pending insert of
\* the same key, and is rejected by the unique index if the row now exists
completeDonation_UpsertCreate(c) ==
    /\ proc[c].op = "completeDonation"
    /\ proc[c].pc = "upsertCreate"
    /\ LET b == proc[c].donation.bloodBankId
           g == proc[c].donation.bloodGroup
       IN /\ ~InventoryLockedByOther(c, b, g)
          /\ IF UniqueViolation(bloodInventory, b, g)
             THEN /\ proc' = [proc EXCEPT ![c] = Idle]
                  /\ response' = [ok |-> FALSE, code |-> "FAILED_TO_COMPLETE",
                                  cause |-> "P2002_bloodBankId_bloodGroup"]
             ELSE /\ proc' = [proc EXCEPT ![c].pc = "updateUser",
                                          ![c].inventoryWrite = "insert"]
                  /\ UNCHANGED response
    /\ UNCHANGED <<bloodInventory, bloodRequests, donations, users, now, bloodBanks, hospitals>>

\* tx.user.update({data: {lastDonation: new Date()}}), the last statement
completeDonation_UpdateUser(c) ==
    /\ proc[c].op = "completeDonation"
    /\ proc[c].pc = "updateUser"
    /\ completeDonation_Commit(c, proc[c].donationDate, now)

\* a statement of the open transaction throws: everything it wrote is
\* rolled back and the catch block answers 500
completeDonation_FaultKeepsDonation(c) ==
    /\ InDonationTx(c)
    /\ donations' = updateDonationCompleted(donations, proc[c].id,
                        proc[c].donationDate, proc[c].body)
    /\ proc' = [proc EXCEPT ![c] = Idle]
    /\ response' = [ok |-> FALSE, code |-> "FAILED_TO_COMPLETE",
                    cause |-> "FAULT"]
    /\ UNCHANGED <<bloodInventory, bloodRequests, users, now, bloodBanks, hospitals>>

completeDonation_Fault(c) ==
    /\ InDonationTx(c)
    /\ proc' = [proc EXCEPT ![c] = Idle]
    /\ response' = [ok |-> FALSE, code |-> "FAILED_TO_COMPLETE",
                    cause |-> "FAULT"]
    /\ UNCHANGED <<bloodInventory, bloodRequests, donations, users, now, bloodBanks, hospitals>>

completeDonation(c) ==
    \/ \E id \in DonationIds, body \in CompleteBody :
           completeDonation_FindDonation(c, id, body)
    \/ completeDonation_UpdateDonation(c)
    \/ completeDonation_UpsertInventory(c)
    \/ completeDonation_UpsertCreate(c)
    \/ completeDonation_UpdateUser(c)
    \/ completeDonation_Fault(c)

(***************************************************************************)
(* createInventoryRecordsBad: one autocommitted INSERT per blood group; an *)
(* INSERT the unique index rejects throws and ends the script.             *)
(***************************************************************************)
BadBloodGroups == <<"A_POSITIVE", "A_NEGATIVE", "B_POSITIVE", "B_NEGATIVE">>

\* one iteration of the for loop, for the i-th blood group
createInventoryRecordsBad_Iteration(c, bloodBankId, i) ==
    LET g == BadBloodGroups[i]
    IN /\ ~InventoryLockedByOther(c, bloodBankId, g)
       /\ IF UniqueViolation(bloodInventory, bloodBankId, g)
          THEN /\ UNCHANGED bloodInventory
               /\ proc' = [proc EXCEPT ![c] = Idle]
               /\ response' = [ok |-> FALSE, code |-> "P2002"]
          ELSE /\ bloodInventory' = bloodInventory \cup
                      {NewInventoryRow(bloodInventory, bloodBankId, g, DemoQuantity)}
               /\ IF i = Len(BadBloodGroups)
                  THEN /\ proc' = [proc EXCEPT ![c] = Idle]
                       /\ response' = [ok |-> TRUE, code |-> "CREATED"]
                  ELSE /\ proc' = [proc EXCEPT ![c] =
                              [op |-> "createInventoryRecordsBad", pc |-> "create",
                               bloodBankId |-> bloodBankId, i |-> i + 1]]
                       /\ UNCHANGED response
       /\ UNCHANGED <<bloodRequests, donations, users, now, bloodBanks, hospitals>>

createInventoryRecordsBad_First(c, bloodBankId) ==
    /\ proc[c] = Idle
    /\ createInventoryRecordsBad_Iteration(c, bloodBankId, 1)

createInventoryRecordsBad_Next(c) ==
    /\ proc[c].op = "createInventoryRecordsBad"
    /\ createInventoryRecordsBad_Iteration(c, proc[c].bloodBankId, proc[c].i)

createInventoryRecordsBad(c) ==
    \/ createInventoryRecordsBad_First(c, "bb1")
    \/ createInventoryRecordsBad_Next(c)

(***************************************************************************)
(* The donation-side specification.                                        *)
(***************************************************************************)
\* two donations scheduled by scheduleDonation for the same donor and bank
InitDonations ==
    {[id |-> "d1", donorId |-> "u1", bloodBankId |-> "bb1",
      bloodGroup |-> "A_POSITIVE", quantity |-> 1, status |-> "SCHEDULED",
      isEligible |-> TRUE, unitSerialNumber |-> NO_SERIAL,
      donationDate |-> NULL_DATE],
     [id |-> "d2", donorId |-> "u1", bloodBankId |-> "bb1",
      bloodGroup |-> "A_POSITIVE", quantity |-> 1, status |-> "SCHEDULED",
      isEligible |-> TRUE, unitSerialNumber |-> NO_SERIAL,
      donationDate |-> NULL_DATE]}

InitDon ==
    /\ bloodInventory = {[id |-> 1, bloodBankId |-> "bb1",
                          bloodGroup |-> "O_POSITIVE", quantity |-> MaxQty]}
    /\ bloodRequests = {}
    /\ donations = InitDonations
    /\ users = InitUsers
    /\ bloodBanks = InitBloodBanks
    /\ hospitals = InitHospitals
    /\ now = 1
    /\ proc = [c \in Callers |-> Idle]
    /\ response = NoResponse

NextDon ==
    \E c \in Callers : completeDonation(c) \/ createInventoryRecordsBad(c)

SpecDon == InitDon /\ [][NextDon]_vars

(***************************************************************************)
(* Properties of the donation side.                                        *)
(***************************************************************************)
UniqueInventoryKey(rows) ==
    \A r1, r2 \in rows :
        (r1.bloodBankId = r2.bloodBankId /\ r1.bloodGroup = r2.bloodGroup)
            => r1 = r2

\* a step in which an INSERT into blood_inventory is rejected
CreateRejected ==
    \/ /\ response'.code = "P2002"
       /\ \/ proc' = proc
          \/ \E c \in Callers : /\ proc[c].op = "createInventoryRecordsBad"
                                /\ proc'[c] = Idle
    \/ \E c \in Callers :
          /\ proc[c].op = "completeDonation"
          /\ proc[c].pc = "upsertCreate"
          /\ proc'[c] = Idle
          /\ response'.code = "FAILED_TO_COMPLETE"
          /\ response'.cause = "P2002_bloodBankId_bloodGroup"

\* C3: in every reachable state each (blood bank, blood group) has at most
\* one inventory row, and a step in which the creation of a row is rejected
\* (a plain create by the demo script, or the insert of a completeDonation
\* upsert that lost the race for a missing key) leaves the table as it was.
C3_OneRowPerBankAndGroup ==
    /\ UniqueInventoryKey(bloodInventory)
    /\ [][ /\ UniqueInventoryKey(bloodInventory')
           /\ CreateRejected => bloodInventory' = bloodInventory ]_vars

\* the demo script's create for A_POSITIVE was rejected because a
\* completeDonation upsert had created the row, which still holds 1
C3_Witness ==
    /\ response.code = "P2002"
    /\ Quantity(bloodInventory, "bb1", "A_POSITIVE") = 1
    /\ Cardinality(bloodInventory) = 2

CompletionCommits(c) ==
    /\ proc[c].op = "completeDonation"
    /\ proc'[c] = Idle
    /\ response'.code = "DONATION_COMPLETED"

CompletionFails(c) ==
    /\ proc[c].op = "completeDonation"
    /\ proc'[c] = Idle
    /\ response'.code = "FAILED_TO_COMPLETE"

DonationRow(rows, id) == findUniqueDonation(rows, id).row

\* C6: a committing completeDonation with isEligible = true on donation D
\* changes exactly one inventory row, the one of (D.bloodBankId,
\* D.bloodGroup): created with D.quantity when absent, else raised by
\* D.quantity; the same step sets the donor's lastDonation to the completion
\* time and changes no other user.
C6_EligibleCompletionAddsDonatedQuantity ==
    [][ \A c \in Callers :
          (CompletionCommits(c) /\ proc[c].body.isEligible) =>
            LET D == DonationRow(donations, proc[c].id)
                old == InventoryRows(bloodInventory, D.bloodBankId, D.bloodGroup)
                new == InventoryRows(bloodInventory', D.bloodBankId, D.bloodGroup)
            IN /\ bloodInventory' \ new = bloodInventory \ old
               /\ Cardinality(new) = 1
               /\ \A n \in new :
                    IF old = {} THEN n.quantity = D.quantity
                    ELSE \A o \in old : /\ n.id = o.id
                                        /\ n.quantity = o.quantity + D.quantity
               /\ users'[D.donorId].lastDonation = now
               /\ \A u \in Users \ {D.donorId} : users'[u] = users[u] ]_vars

\* both donations completed as eligible: the row was created with 1 by the
\* first and raised to 2 by the second, and the donor's lastDonation is set
C6_Witness ==
    /\ response.code = "DONATION_COMPLETED"
    /\ \A d \in donations : d.status = "COMPLETED" /\ d.isEligible
    /\ Quantity(bloodInventory, "bb1", "A_POSITIVE") = 2
    /\ users["u1"].lastDonation = now
    /\ users["u2"].lastDonation = NULL_DATE

\* C7: a committing completeDonation with isEligible = false leaves the
\* donation COMPLETED, and changes no inventory row and no lastDonation.
C7_IneligibleCompletionLeavesStock ==
    [][ \A c \in Callers :
          (CompletionCommits(c) /\ ~proc[c].body.isEligible) =>
            /\ DonationRow(donations', proc[c].id).status = "COMPLETED"
            /\ ~DonationRow(donations', proc[c].id).isEligible
            /\ bloodInventory' = bloodInventory
            /\ users' = users ]_vars

\* a donation was completed as not eligible and nothing else was written
C7_Witness ==
    /\ response.code = "DONATION_COMPLETED"
    /\ \E d \in donations : d.status = "COMPLETED" /\ ~d.isEligible
    /\ \E d \in donations : d.status = "SCHEDULED"
    /\ InventoryRows(bloodInventory, "bb1", "A_POSITIVE") = {}
    /\ users["u1"].lastDonation = NULL_DATE

\* C8: the writes of completeDonation become visible together or not at
\* all: a call that fails (unit-serial collision, rejected inventory insert,
\* any throwing statement) leaves donations, inventory and users as they
\* were, and the only step of a call that changes any of them is its commit,
\* which for an eligible donation writes the donation, the inventory row and
\* the donor's lastDonation at once.
C8_CompletionWritesAreAtomic ==
    [][ \A c \in Callers :
          /\ CompletionFails(c) => UNCHANGED <<donations, bloodInventory, users>>
          /\ (proc[c].op = "completeDonation" /\ proc'[c] # proc[c]) =>
                \/ UNCHANGED <<donations, bloodInventory, users>>
                \/ /\ CompletionCommits(c)
                   /\ DonationRow(donations', proc[c].id).status = "COMPLETED"
                   /\ proc[c].body.isEligible =>
                        /\ Quantity(bloodInventory', proc[c].donation.bloodBankId,
                                    proc[c].donation.bloodGroup)
                             > Quantity(bloodInventory, proc[c].donation.bloodBankId,
                                        proc[c].donation.bloodGroup)
                        /\ users'[proc[c].donation.donorId].lastDonation = now ]_vars

\* a completion of d2 lost the race for the missing inventory row at its
\* second statement: d2 is still SCHEDULED and the winner's row holds 1
C8_Witness ==
    /\ response.code = "FAILED_TO_COMPLETE"
    /\ response.cause = "P2002_bloodBankId_bloodGroup"
    /\ DonationRow(donations, "d1").status = "COMPLETED"
    /\ DonationRow(donations, "d2") \in InitDonations
    /\ Quantity(bloodInventory, "bb1", "A_POSITIVE") = 1

\* no two rows carry the same unit serial
UniqueSerials(rows) ==
    \A r1, r2 \in rows :
        (r1.id # r2.id /\ r1.unitSerialNumber # NO_SERIAL)
            => r1.unitSerialNumber # r2.unitSerialNumber

\* the donation.update of call c carries a serial that another donation holds
SerialCollides(c) ==
    /\ proc[c].op = "completeDonation"
    /\ proc[c].pc = "updateDonation"
    /\ proc'[c] # proc[c]
    /\ proc[c].body.unitSerialNumber # UNDEFINED
    /\ \E r \in donations : /\ r.id # proc[c].id
                             /\ r.unitSerialNumber = proc[c].body.unitSerialNumber

\* C19: in every state no two donations share a non-null unitSerialNumber;
\* a completeDonation whose serial is held by another donation fails, and
\* leaves the donations, the inventory and every lastDonation as they were.
C19_UnitSerialsUnique ==
    /\ UniqueSerials(donations)
    /\ [][ /\ UniqueSerials(donations')
           /\ \A c \in Callers :
                  SerialCollides(c)
                      => /\ CompletionFails(c)
                         /\ UNCHANGED <<donations, bloodInventory, users>> ]_vars

\* d1 holds the serial; the completion of d2 with the same serial was
\* rejected and d2 is as it was scheduled
C19_Witness ==
    /\ response.code = "FAILED_TO_COMPLETE"
    /\ response.cause = "P2002_unitSerialNumber"
    /\ DonationRow(donations, "d1").unitSerialNumber \in UnitSerials
    /\ DonationRow(donations, "d2") \in InitDonations
    /\ \A c \in Callers : proc[c] = Idle

\* C10 (as stated): completeDonation succeeds only on a SCHEDULED donation,
\* so every committing call finds its donation SCHEDULED and a donation is
\* added to inventory at most once.
C10_CompletesOnlyScheduled ==
    [][ \A c \in Callers :
          CompletionCommits(c) =>
              DonationRow(donations, proc[c].id).status = "SCHEDULED" ]_vars

(***************************************************************************)
(* PUT and DELETE /api/blood-requests/[id]: validation, then one           *)
(* autocommitted statement.                                                *)
(***************************************************************************)
\* bodies carrying any subset of the fields status and quantityNeeded
PutBodies ==
    {[f \in {} |-> UNDEFINED]}
    \cup {[status |-> s] : s \in RequestStatus \cup {"NOT_A_STATUS"}}
    \cup {[quantityNeeded |-> q] : q \in 0..MaxNeed}
    \cup {[status |-> s, quantityNeeded |-> q] :
              s \in RequestStatus \cup {"NOT_A_STATUS"}, q \in 0..MaxNeed}

\* body.field !== undefined
Provided(body, field) == field \in DOMAIN body

MaxPatientAge == 150

PatientAgeOutOfRange_NegativeOnly(patientAge) == patientAge < 0

\* body.patientAge < 0 || body.patientAge > 150
PatientAgeOutOfRange(patientAge) == patientAge < 0 \/ patientAge > MaxPatientAge

ValidationError(message) ==
    [ok |-> FALSE, code |-> "VALIDATION_ERROR", message |-> message]

\* prisma.bloodRequest.update({where: {id}, data: updateData})
updateRequest(rows, id, updateData) ==
    {IF r.id = id
     THEN [r EXCEPT !.status = IF Provided(updateData, "status")
                               THEN updateData.status ELSE @,
                    !.quantityNeeded = IF Provided(updateData, "quantityNeeded")
                                       THEN updateData.quantityNeeded ELSE @,
                    !.patientAge = IF Provided(updateData, "patientAge")
                                   THEN updateData.patientAge ELSE @]
     ELSE r : r \in rows}

PUT(id, body) ==
    /\ IF Provided(body, "quantityNeeded") /\ body.quantityNeeded <= 0
       THEN /\ response' = ValidationError("Quantity needed must be greater than 0")
            /\ UNCHANGED bloodRequests
       ELSE IF Provided(body, "status") /\ body.status \notin RequestStatus
       THEN /\ response' = ValidationError("Invalid status value")
            /\ UNCHANGED bloodRequests
       ELSE IF Provided(body, "patientAge") /\ PatientAgeOutOfRange(body.patientAge)
       THEN /\ response' = ValidationError("Patient age must be between 0 and 150")
            /\ UNCHANGED bloodRequests
       ELSE IF DOMAIN body = {}
       THEN /\ response' = ValidationError("No fields provided for update")
            /\ UNCHANGED bloodRequests
       ELSE IF ~findUniqueRequest(bloodRequests, id).found
       THEN /\ response' = [ok |-> FALSE, code |-> "NOT_FOUND"]
            /\ UNCHANGED bloodRequests
       ELSE /\ bloodRequests' = updateRequest(bloodRequests, id, body)
            /\ response' = [ok |-> TRUE, code |-> "UPDATED"]
    /\ UNCHANGED <<bloodInventory, donations, users, now, proc, bloodBanks, hospitals>>

DELETE(id) ==
    /\ IF findUniqueRequest(bloodRequests, id).found
       THEN /\ bloodRequests' = {r \in bloodRequests : r.id # id}
            /\ response' = [ok |-> TRUE, code |-> "DELETED"]
       ELSE /\ response' = [ok |-> FALSE, code |-> "NOT_FOUND"]
            /\ UNCHANGED bloodRequests
    /\ UNCHANGED <<bloodInventory, donations, users, now, proc, bloodBanks, hospitals>>

(***************************************************************************)
(* The specification of the request API.                                   *)
(***************************************************************************)
NextApi ==
    \/ \E id \in 1..MaxRequests, body \in PutBodies : PUT(id, body)
    \/ \E id \in 1..MaxRequests : DELETE(id)
    \/ \E c \in Callers : approveBloodRequest(c)

SpecApi == Init /\ [][NextApi]_vars

(***************************************************************************)
(* Properties of the request API.                                          *)
(***************************************************************************)
\* the transition table of a blood request
AllowedTransition(from, to) ==
    \/ from = "PENDING" /\ to \in {"APPROVED", "REJECTED", "CANCELLED"}
    \/ from = "APPROVED" /\ to \in {"FULFILLED", "CANCELLED"}

\* C9 (as stated): every change of a request's status follows the table
\* PENDING -> {APPROVED, REJECTED, CANCELLED}, APPROVED -> {FULFILLED,
\* CANCELLED}; FULFILLED, REJECTED and CANCELLED are never left.
C9_StatusFollowsTable ==
    [][ \A r \in bloodRequests : \A r2 \in bloodRequests' :
          (r2.id = r.id /\ r2.status # r.status)
              => AllowedTransition(r.status, r2.status) ]_vars

(***************************************************************************)
(* The clock, in days. In Spec, SpecDon and SpecApi it stands still, so    *)
(* there a value read by new Date() does not depend on when it is read.    *)
(***************************************************************************)
Tick ==
    /\ now + DaysPerTick <= 1 + MaxTicks * DaysPerTick
    /\ now' = now + DaysPerTick
    /\ UNCHANGED <<bloodInventory, bloodRequests, donations, users, bloodBanks,
                   hospitals, proc, response>>

(***************************************************************************)
(* scheduleDonation: read the donor, test the 90 days, create the row.     *)
(***************************************************************************)
EligibilityDays == 90

\* select: {bloodGroup: true, lastDonation: true}
bloodGroupOf(u) == users[u].bloodGroup

\* Math.floor((Date.now() - lastDonation.getTime()) / (1000 * 60 * 60 * 24))
daysSinceLastDonation(lastDonation) == now - lastDonation

ScheduledIds == {"d1", "d2"}

scheduleDonation(donorId, bloodBankId) ==
    /\ \E id \in ScheduledIds : \A d \in donations : d.id # id
    /\ IF donorId \notin DOMAIN users
       THEN /\ response' = [ok |-> FALSE, code |-> "DONOR_NOT_FOUND"]
            /\ UNCHANGED donations
       ELSE IF /\ users[donorId].lastDonation # NULL_DATE
               /\ daysSinceLastDonation(users[donorId].lastDonation) < EligibilityDays
       THEN /\ response' = [ok |-> FALSE, code |-> "NOT_ELIGIBLE_YET"]
            /\ UNCHANGED donations
       ELSE IF \A bank \in bloodBanks : bank.id # bloodBankId
       THEN \* donations_bloodBankId_fkey rejects the INSERT
            /\ response' = [ok |-> FALSE, code |-> "FAILED_TO_SCHEDULE"]
            /\ UNCHANGED donations
       ELSE /\ donations' = donations \cup
                  {[id |-> CHOOSE id \in ScheduledIds : \A d \in donations : d.id # id,
                    donorId |-> donorId, bloodBankId |-> bloodBankId,
                    bloodGroup |-> bloodGroupOf(donorId), quantity |-> 1,
                    status |-> "SCHEDULED", isEligible |-> TRUE,
                    unitSerialNumber |-> NO_SERIAL, donationDate |-> NULL_DATE]}
            /\ response' = [ok |-> TRUE, code |-> "DONATION_SCHEDULED"]
    /\ UNCHANGED <<bloodInventory, bloodRequests, users, now, proc, bloodBanks, hospitals>>

(***************************************************************************)
(* completeDonation under a moving clock: new Date() is evaluated when the *)
(* arguments of tx.user.update are built, the statement reaches the        *)
(* database later, and statements of different connections arrive in any   *)
(* order.                                                                  *)
(***************************************************************************)
\* data: {lastDonation: new Date()}
completeDonation_ReadClock(c) ==
    /\ proc[c].op = "completeDonation"
    /\ proc[c].pc = "updateUser"
    /\ proc' = [proc EXCEPT ![c].pc = "sendUserUpdate", ![c].lastDonation = now]
    /\ UNCHANGED <<bloodInventory, bloodRequests, donations, users, now, response, bloodBanks, hospitals>>

\* tx.user.update executes, the callback returns and the transaction commits
completeDonation_SendUserUpdate(c) ==
    /\ proc[c].op = "completeDonation"
    /\ proc[c].pc = "sendUserUpdate"
    /\ completeDonation_Commit(c, proc[c].donationDate, proc[c].lastDonation)

TimedBodies == {body \in CompleteBody : body.unitSerialNumber = UNDEFINED}

completeDonationTimed(c) ==
    \/ \E id \in DonationIds, body \in TimedBodies :
           completeDonation_FindDonation(c, id, body)
    \/ completeDonation_UpdateDonation(c)
    \/ completeDonation_UpsertInventory(c)
    \/ completeDonation_UpsertCreate(c)
    \/ completeDonation_ReadClock(c)
    \/ completeDonation_SendUserUpdate(c)

InitTime ==
    /\ bloodInventory = {[id |-> 1, bloodBankId |-> "bb1",
                          bloodGroup |-> "O_POSITIVE", quantity |-> MaxQty]}
    /\ bloodRequests = {}
    /\ donations = {}
    /\ users = InitUsers
    /\ bloodBanks = InitBloodBanks
    /\ hospitals = InitHospitals
    /\ now = 1
    /\ proc = [c \in Callers |-> Idle]
    /\ response = NoResponse

NextTime ==
    \/ Tick
    \/ \E donorId \in Users \cup {"nobody"}, bloodBankId \in BloodBanks :
           scheduleDonation(donorId, bloodBankId)
    \/ \E c \in Callers : completeDonationTimed(c)

SpecTime == InitTime /\ [][NextTime]_vars

(***************************************************************************)
(* Properties under a moving clock.                                        *)
(***************************************************************************)
\* C11 (as stated): a donor's lastDonation, once set, never decreases, also
\* when two completeDonation calls for the same donor run concurrently.
C11_LastDonationNeverDecreases ==
    [][ \A u \in Users :
          users[u].lastDonation # NULL_DATE
              => users'[u].lastDonation >= users[u].lastDonation ]_vars

\* C12 (as stated): no donor has two donations that are both COMPLETED with
\* isEligible = true and whose donation dates are less than 90 days apart.
C12_CompletedDonationsNinetyDaysApart ==
    \A d1, d2 \in donations :
        ( /\ d1.id # d2.id
          /\ d1.donorId = d2.donorId
          /\ d1.status = "COMPLETED" /\ d1.isEligible
          /\ d2.status = "COMPLETED" /\ d2.isEligible
          /\ d1.donationDate >= d2.donationDate )
            => d1.donationDate - d2.donationDate >= EligibilityDays


(***************************************************************************)
(* The batch helpers of the demo script. Each is one autocommitted         *)
(* statement. Every inventory row the seed or the code writes has          *)
(* minimumQuantity 10, the column's default.                               *)
(***************************************************************************)
MinimumQuantity == 10
RestockQuantity == 50

\* where: {quantity: {lt: minimumQuantity}}
LowStock(row) == row.quantity < MinimumQuantity

\* prisma.bloodInventory.updateMany({where: low stock, data: {quantity: 50}})
updateLowStockInventory ==
    /\ bloodInventory' = {IF LowStock(row)
                          THEN [row EXCEPT !.quantity = RestockQuantity]
                          ELSE row : row \in bloodInventory}
    /\ response' = [ok |-> TRUE, code |-> "UPDATED",
                    count |-> Cardinality({row \in bloodInventory : LowStock(row)})]
    /\ UNCHANGED <<bloodRequests, donations, users, now, proc, bloodBanks, hospitals>>

GoodBloodGroups == <<"AB_POSITIVE", "AB_NEGATIVE", "O_POSITIVE", "O_NEGATIVE">>

RECURSIVE createMany(_, _, _)
\* createMany with skipDuplicates: the rows of the listed blood groups, from
\* the i-th on, that the unique index accepts
createMany(rows, bloodBankId, i) ==
    IF i > Len(GoodBloodGroups) THEN rows
    ELSE IF UniqueViolation(rows, bloodBankId, GoodBloodGroups[i])
    THEN createMany(rows, bloodBankId, i + 1)
    ELSE createMany(rows \cup {NewInventoryRow(rows, bloodBankId,
                                               GoodBloodGroups[i], DemoQuantity)},
                    bloodBankId, i + 1)

createInventoryRecordsGood(bloodBankId) ==
    /\ bloodInventory' = createMany(bloodInventory, bloodBankId, 1)
    /\ response' = [ok |-> TRUE, code |-> "CREATED",
                    count |-> Cardinality(bloodInventory') - Cardinality(bloodInventory)]
    /\ UNCHANGED <<bloodRequests, donations, users, now, proc, bloodBanks, hospitals>>

(***************************************************************************)
(* The specification of the operations outside the transaction engine.     *)
(***************************************************************************)
NextOther ==
    \/ \E id \in 1..MaxRequests, body \in PutBodies : PUT(id, body)
    \/ \E id \in 1..MaxRequests : DELETE(id)
    \/ \E donorId \in Users \cup {"nobody"}, bloodBankId \in BloodBanks :
           scheduleDonation(donorId, bloodBankId)
    \/ updateLowStockInventory
    \/ \E bloodBankId \in BloodBanks : createInventoryRecordsGood(bloodBankId)

SpecOther == Init /\ [][NextOther]_vars

\* C13 (as stated): no operation outside the transaction engine changes the
\* quantity of an inventory row: PUT, DELETE, scheduleDonation and the batch
\* helpers leave every existing row's quantity as it was.
C13_OnlyTransactionsChangeQuantity ==
    [][ \A row \in bloodInventory :
          Quantity(bloodInventory', row.bloodBankId, row.bloodGroup)
              = row.quantity ]_vars

(***************************************************************************)
(* The read queries. A findMany answers with the matching rows in an order *)
(* that satisfies its orderBy; among rows with equal sort keys the         *)
(* database is free to choose.                                             *)
(***************************************************************************)
UserRole == {"DONOR", "HOSPITAL"}

\* the sequences that list every element of S once
Orderings(S) ==
    {seq \in [1..Cardinality(S) -> S] :
         \A i, j \in 1..Cardinality(S) : i # j => seq[i] # seq[j]}

\* ninetyDaysAgo.setDate(ninetyDaysAgo.getDate() - 90)
ninetyDaysAgo == now - EligibilityDays

\* the where clause of findEligibleDonors; a filter that is not given is
\* left out of it
EligibleDonorWhere(u, bloodGroup, city) ==
    /\ users[u].role = "DONOR"
    /\ bloodGroup # UNDEFINED => users[u].bloodGroup = bloodGroup
    /\ city # UNDEFINED => users[u].city = city
    /\ users[u].isActive
    /\ users[u].isVerified
    /\ \/ users[u].lastDonation = NULL_DATE
       \/ users[u].lastDonation < ninetyDaysAgo

\* orderBy: {lastDonation: "asc"}; ascending order puts NULL last
LastDonationAsc(seq) ==
    \A i, j \in DOMAIN seq :
        i < j => \/ users[seq[j]].lastDonation = NULL_DATE
                 \/ /\ users[seq[i]].lastDonation # NULL_DATE
                    /\ users[seq[i]].lastDonation <= users[seq[j]].lastDonation

findEligibleDonors(bloodGroup, city) ==
    /\ \E donors \in Orderings({u \in Users : EligibleDonorWhere(u, bloodGroup, city)}) :
           /\ LastDonationAsc(donors)
           /\ response' = [ok |-> TRUE, code |-> "ELIGIBLE_DONORS", data |-> donors,
                           count |-> Len(donors)]
    /\ UNCHANGED <<bloodInventory, bloodRequests, donations, users, now, proc,
                   bloodBanks, hospitals>>

\* any users table: each user has any role and flags, the seeded blood group
\* and city, and has never donated or donated on day 1
InitSearchUsers ==
    {[u \in Users |-> [InitUsers[u] EXCEPT !.role = role[u],
                                            !.isActive = active[u],
                                            !.isVerified = verified[u],
                                            !.lastDonation = last[u]]] :
         role \in [Users -> UserRole], active \in [Users -> BOOLEAN],
         verified \in [Users -> BOOLEAN], last \in [Users -> {NULL_DATE, 1}]}

InitDonors ==
    /\ bloodInventory = {}
    /\ bloodRequests = {}
    /\ donations = {}
    /\ users \in InitSearchUsers
    /\ bloodBanks = InitBloodBanks
    /\ hospitals = InitHospitals
    /\ now = 1
    /\ proc = [c \in Callers |-> Idle]
    /\ response = NoResponse

NextDonors ==
    \/ Tick
    \/ \E bloodGroup \in BloodGroups \cup {UNDEFINED}, city \in Cities \cup {UNDEFINED} :
           findEligibleDonors(bloodGroup, city)

SpecDonors == InitDonors /\ [][NextDonors]_vars

\* the users the stated rule selects: donors, active and verified, matching
\* the filters, with no lastDonation or now - lastDonation >= 90 days
StatedEligibleDonors(bloodGroup, city) ==
    {u \in Users :
         /\ users[u].role = "DONOR"
         /\ users[u].isActive
         /\ users[u].isVerified
         /\ bloodGroup # UNDEFINED => users[u].bloodGroup = bloodGroup
         /\ city # UNDEFINED => users[u].city = city
         /\ \/ users[u].lastDonation = NULL_DATE
            \/ now - users[u].lastDonation >= EligibilityDays}

\* C14 (as stated): the eligible-donor search returns exactly the active,
\* verified donors matching the filters whose lastDonation is null or at
\* least 90 days before now, a donor exactly 90 days after a donation included.
C14_SearchReturnsEligibleDonors ==
    [][ \A bloodGroup \in BloodGroups \cup {UNDEFINED}, city \in Cities \cup {UNDEFINED} :
          findEligibleDonors(bloodGroup, city)
              => {response'.data[i] : i \in DOMAIN response'.data}
                     = StatedEligibleDonors(bloodGroup, city) ]_vars

(***************************************************************************)
(* getBloodAvailability: one findMany over blood_inventory joined with     *)
(* blood_banks.                                                            *)
(***************************************************************************)
findUniqueBloodBank(rows, id) == CHOOSE bank \in rows : bank.id = id

\* the where clause with the quantity condition left out
AvailabilityWhere_ZeroToo(row, bloodGroup, city) ==
    LET bloodBank == findUniqueBloodBank(bloodBanks, row.bloodBankId)
    IN /\ bloodGroup # UNDEFINED => row.bloodGroup = bloodGroup
       /\ city # UNDEFINED => bloodBank.city = city
       /\ bloodBank.isActive
       /\ bloodBank.isVerified

\* the where clause of getBloodAvailability; a filter that is not given is
\* left out of it
AvailabilityWhere(row, bloodGroup, city) ==
    LET bloodBank == findUniqueBloodBank(bloodBanks, row.bloodBankId)
    IN /\ bloodGroup # UNDEFINED => row.bloodGroup = bloodGroup
       /\ row.quantity > 0
       /\ city # UNDEFINED => bloodBank.city = city
       /\ bloodBank.isActive
       /\ bloodBank.isVerified

\* include: {bloodBank: {select: {id, name, address, city, ...}}}
IncludeBloodBank(row) ==
    LET bloodBank == findUniqueBloodBank(bloodBanks, row.bloodBankId)
    IN [id |-> row.id, bloodBankId |-> row.bloodBankId,
        bloodGroup |-> row.bloodGroup, quantity |-> row.quantity,
        bloodBank |-> [id |-> bloodBank.id, city |-> bloodBank.city]]

\* orderBy: {quantity: "desc"}
QuantityDesc(seq) ==
    \A i, j \in DOMAIN seq : i < j => seq[i].quantity >= seq[j].quantity

getBloodAvailability(bloodGroup, city) ==
    /\ \E inventory \in Orderings({IncludeBloodBank(row) :
              row \in {r \in bloodInventory : AvailabilityWhere(r, bloodGroup, city)}}) :
           /\ QuantityDesc(inventory)
           /\ response' = [ok |-> TRUE, code |-> "AVAILABILITY",
                           query |-> [bloodGroup |-> bloodGroup, city |-> city],
                           data |-> inventory, count |-> Len(inventory)]
    /\ UNCHANGED <<bloodInventory, bloodRequests, donations, users, now, proc,
                   bloodBanks, hospitals>>

\* any flags on the two seeded banks
InitAvailabilityBanks ==
    {{[bank EXCEPT !.isActive = active[bank.id], !.isVerified = verified[bank.id]] :
          bank \in InitBloodBanks} :
         active \in [BloodBanks -> BOOLEAN], verified \in [BloodBanks -> BOOLEAN]}

\* three inventory rows with any quantities
InitAvailabilityInventory ==
    {{[id |-> 1, bloodBankId |-> "bb1", bloodGroup |-> "O_POSITIVE", quantity |-> q1],
      [id |-> 2, bloodBankId |-> "bb2", bloodGroup |-> "O_POSITIVE", quantity |-> q2],
      [id |-> 3, bloodBankId |-> "bb1", bloodGroup |-> "A_POSITIVE", quantity |-> q3]} :
         q1 \in 0..MaxQty, q2 \in 0..MaxQty, q3 \in 0..MaxQty}

InitAvailability ==
    /\ bloodInventory \in InitAvailabilityInventory
    /\ bloodRequests = {}
    /\ donations = {}
    /\ users = InitUsers
    /\ bloodBanks \in InitAvailabilityBanks
    /\ hospitals = InitHospitals
    /\ now = 1
    /\ proc = [c \in Callers |-> Idle]
    /\ response = NoResponse

NextAvailability ==
    \/ \E bloodGroup \in BloodGroups \cup {UNDEFINED}, city \in Cities \cup {UNDEFINED} :
           getBloodAvailability(bloodGroup, city)
    \/ updateLowStockInventory

SpecAvailability == InitAvailability /\ [][NextAvailability]_vars

\* the rows of an answer, without the joined bank
AnswerRows(data) ==
    {[id |-> data[i].id, bloodBankId |-> data[i].bloodBankId,
      bloodGroup |-> data[i].bloodGroup, quantity |-> data[i].quantity] :
         i \in DOMAIN data}

\* row is in stock and matches the blood-group and location filters
MatchesFilters(row, bloodGroup, city) ==
    /\ row.quantity > 0
    /\ bloodGroup # UNDEFINED => row.bloodGroup = bloodGroup
    /\ city # UNDEFINED =>
           \E bank \in bloodBanks : bank.id = row.bloodBankId /\ bank.city = city

\* the bank of row is active and verified
BankListed(row) ==
    \E bank \in bloodBanks :
        bank.id = row.bloodBankId /\ bank.isActive /\ bank.isVerified

\* every row of the answer carries its own bank's metadata, and the answer
\* lists each row once, in non-increasing order of quantity
JoinedAndOrdered(data) ==
    /\ \A i \in DOMAIN data :
           \E bank \in bloodBanks :
               /\ bank.id = data[i].bloodBankId
               /\ data[i].bloodBank = [id |-> bank.id, city |-> bank.city]
    /\ \A i, j \in DOMAIN data : i < j => data[i].quantity >= data[j].quantity
    /\ \A i, j \in DOMAIN data : i # j => data[i].id # data[j].id

AnsweredBefore(bloodGroup, city) ==
    /\ response.code = "AVAILABILITY"
    /\ response.query = [bloodGroup |-> bloodGroup, city |-> city]

\* C16 (as stated): the availability search changes no stored row, and a
\* call that follows a call with the same filters, with no write in between,
\* returns the same rows in the same order.
C16_SearchIsPureAndRepeatable ==
    [][ \A bloodGroup \in BloodGroups \cup {UNDEFINED}, city \in Cities \cup {UNDEFINED} :
          getBloodAvailability(bloodGroup, city)
              => /\ UNCHANGED <<bloodInventory, bloodRequests, donations, users,
                                bloodBanks, hospitals>>
                 /\ AnsweredBefore(bloodGroup, city)
                        => response'.data = response.data ]_vars

(***************************************************************************)
(* Deleting a blood bank or a user: one DELETE statement, to which the     *)
(* foreign keys add their ON DELETE actions in the same statement.         *)
(***************************************************************************)
\* ON DELETE CASCADE on the column of the referencing rows
OnDeleteCascade(rows, column, id) == {r \in rows : r[column] # id}

\* ON DELETE SET NULL on the column of the referencing rows
OnDeleteSetNull(rows, column, id) ==
    {IF r[column] = id THEN [r EXCEPT ![column] = NULL_ID] ELSE r : r \in rows}

deleteBloodBank_KeepsDonations(id) ==
    /\ bloodBanks' = {bank \in bloodBanks : bank.id # id}
    /\ bloodInventory' = OnDeleteCascade(bloodInventory, "bloodBankId", id)
    /\ bloodRequests' = OnDeleteSetNull(bloodRequests, "bloodBankId", id)
    /\ response' = [ok |-> TRUE, code |-> "BANK_DELETED"]
    /\ UNCHANGED <<donations, users, hospitals, now, proc>>

\* DELETE FROM blood_banks WHERE id = ...
deleteBloodBank(id) ==
    /\ bloodBanks' = {bank \in bloodBanks : bank.id # id}
    /\ bloodInventory' = OnDeleteCascade(bloodInventory, "bloodBankId", id)
    /\ donations' = OnDeleteCascade(donations, "bloodBankId", id)
    /\ bloodRequests' = OnDeleteSetNull(bloodRequests, "bloodBankId", id)
    /\ response' = [ok |-> TRUE, code |-> "BANK_DELETED"]
    /\ UNCHANGED <<users, hospitals, now, proc>>

deleteUser_KeepsManager(id) ==
    /\ users' = [u \in DOMAIN users \ {id} |-> users[u]]
    /\ donations' = OnDeleteCascade(donations, "donorId", id)
    /\ bloodRequests' = OnDeleteCascade(bloodRequests, "requesterId", id)
    /\ hospitals' = OnDeleteSetNull(hospitals, "contactPersonId", id)
    /\ response' = [ok |-> TRUE, code |-> "USER_DELETED"]
    /\ UNCHANGED <<bloodInventory, bloodBanks, now, proc>>

\* DELETE FROM users WHERE id = ...
deleteUser(id) ==
    /\ users' = [u \in DOMAIN users \ {id} |-> users[u]]
    /\ donations' = OnDeleteCascade(donations, "donorId", id)
    /\ bloodRequests' = OnDeleteCascade(bloodRequests, "requesterId", id)
    /\ bloodBanks' = OnDeleteSetNull(bloodBanks, "managerId", id)
    /\ hospitals' = OnDeleteSetNull(hospitals, "contactPersonId", id)
    /\ response' = [ok |-> TRUE, code |-> "USER_DELETED"]
    /\ UNCHANGED <<bloodInventory, now, proc>>

\* two requests, the first by any user to any bank and in any of two states
InitDeleteRequests ==
    {{[id |-> 1, requesterId |-> requesterId, bloodBankId |-> bloodBankId,
       bloodGroup |-> "O_POSITIVE", quantityNeeded |-> 1,
       patientAge |-> DemoPatientAge, status |-> status,
       approvedAt |-> NULL_DATE, fulfilledAt |-> NULL_DATE],
      [id |-> 2, requesterId |-> "u2", bloodBankId |-> "bb1",
       bloodGroup |-> "A_POSITIVE", quantityNeeded |-> MaxNeed,
       patientAge |-> DemoPatientAge, status |-> "PENDING",
       approvedAt |-> NULL_DATE, fulfilledAt |-> NULL_DATE]} :
         requesterId \in Users, bloodBankId \in BloodBanks,
         status \in {"PENDING", "FULFILLED"}}

\* the banks and the hospital, each managed by any user or by nobody
InitDeleteBanks ==
    {{[bank EXCEPT !.managerId = managerId[bank.id]] : bank \in InitBloodBanks} :
         managerId \in {f \in [BloodBanks -> Users \cup {NULL_ID}] :
                            \A b1, b2 \in BloodBanks :
                                (b1 # b2 /\ f[b1] # NULL_ID) => f[b1] # f[b2]}}

InitDeleteHospitals ==
    {{[h EXCEPT !.contactPersonId = contactPersonId] : h \in InitHospitals} :
         contactPersonId \in Users \cup {NULL_ID}}

\* an inventory row at each bank
InitDeleteInventory ==
    {[id |-> 1, bloodBankId |-> "bb1", bloodGroup |-> "O_POSITIVE", quantity |-> MaxQty],
     [id |-> 2, bloodBankId |-> "bb2", bloodGroup |-> "O_POSITIVE", quantity |-> 0],
     [id |-> 3, bloodBankId |-> "bb1", bloodGroup |-> "A_POSITIVE", quantity |-> 1]}

InitDelete ==
    /\ bloodInventory = InitDeleteInventory
    /\ bloodRequests \in InitDeleteRequests
    /\ donations = {}
    /\ users = InitUsers
    /\ bloodBanks \in InitDeleteBanks
    /\ hospitals \in InitDeleteHospitals
    /\ now = 1
    /\ proc = [c \in Callers |-> Idle]
    /\ response = NoResponse

NextDelete ==
    \/ \E id \in BloodBanks : deleteBloodBank(id)
    \/ \E id \in Users : deleteUser(id)
    \/ \E donorId \in Users, bloodBankId \in BloodBanks :
           scheduleDonation(donorId, bloodBankId)

SpecDelete == InitDelete /\ [][NextDelete]_vars

\* C17: deleting a blood bank leaves no inventory row and no donation that
\* references it, and keeps every request that referenced it, with
\* bloodBankId null and every other field as it was; other requests are
\* untouched.
C17_BankDeletionCascades ==
    [][ \A id \in BloodBanks :
          deleteBloodBank(id)
              => /\ \A row \in bloodInventory' : row.bloodBankId # id
                 /\ \A d \in donations' : d.bloodBankId # id
                 /\ \A r \in bloodRequests :
                        IF r.bloodBankId = id
                        THEN [r EXCEPT !.bloodBankId = NULL_ID] \in bloodRequests'
                        ELSE r \in bloodRequests'
                 /\ Cardinality(bloodRequests') = Cardinality(bloodRequests) ]_vars

\* bb1 was deleted while it had inventory, a donation and a request: its
\* request is kept without a bank, and the donation at bb2 is still there
C17_Witness ==
    /\ response.code = "BANK_DELETED"
    /\ \A bank \in bloodBanks : bank.id # "bb1"
    /\ \E r \in bloodRequests : r.id = 2 /\ r.bloodBankId = NULL_ID /\ r.status = "PENDING"
    /\ \E d \in donations : d.bloodBankId = "bb2"
    /\ \A row \in bloodInventory : row.bloodBankId = "bb2"

\* every donation, request and inventory row references existing rows
ReferencesExist ==
    /\ \A d \in donations :
           /\ d.donorId \in DOMAIN users
           /\ \E bank \in bloodBanks : bank.id = d.bloodBankId
    /\ \A r \in bloodRequests :
           /\ r.requesterId \in DOMAIN users
           /\ r.bloodBankId # NULL_ID => \E bank \in bloodBanks : bank.id = r.bloodBankId
    /\ \A row \in bloodInventory : \E bank \in bloodBanks : bank.id = row.bloodBankId

\* C18: deleting a user leaves none of the user's requests and donations,
\* and keeps every blood bank and hospital, with managerId / contactPersonId
\* null where it was that user; in every state reached by deletions every
\* donation, request and inventory row references existing users and banks.
C18_UserDeletionCascades ==
    /\ ReferencesExist
    /\ [][ /\ ReferencesExist'
           /\ \A id \in Users :
                  deleteUser(id)
                      => /\ \A r \in bloodRequests' : r.requesterId # id
                         /\ \A d \in donations' : d.donorId # id
                         /\ bloodBanks' = {IF bank.managerId = id
                                           THEN [bank EXCEPT !.managerId = NULL_ID]
                                           ELSE bank : bank \in bloodBanks}
                         /\ hospitals' = {IF h.contactPersonId = id
                                          THEN [h EXCEPT !.contactPersonId = NULL_ID]
                                          ELSE h : h \in hospitals} ]_vars

\* u2, who managed bb1 and had a request and a donation, was deleted: bb1 is
\* still there without a manager, and u1's donation is still there
C18_Witness ==
    /\ response.code = "USER_DELETED"
    /\ "u2" \notin DOMAIN users
    /\ \E bank \in bloodBanks : bank.id = "bb1" /\ bank.managerId = NULL_ID
    /\ \E bank \in bloodBanks : bank.id = "bb2" /\ bank.managerId = "u1"
    /\ \E d \in donations : d.donorId = "u1"
    /\ bloodRequests = {}

(***************************************************************************)
(* Write conflicts in the transaction engine.                              *)
(***************************************************************************)
\* the row call c checked in step 1, as committed now
CheckedRowNow(c) ==
    findUniqueInventory(bloodInventory, proc[c].requestData.bloodBankId,
                        proc[c].requestData.bloodGroup)

\* C20 (as stated): a call that lost a write conflict on its inventory row
\* runs again on fresh reads before it ends, so a call commits only when the
\* row as committed at that moment passes the checks of step 1; otherwise it
\* ends with ConcurrentModification or with the business-rule error.
C20_CommitsOnFreshReads ==
    [][ \A c \in Callers :
          CreateCommits(c)
              => /\ CheckedRowNow(c).found
                 /\ ~InsufficientInventory(CheckedRowNow(c),
                                           proc[c].requestData.quantityNeeded) ]_vars

(***************************************************************************)
(* Validation in PUT and DELETE /api/blood-requests/[id].                  *)
(***************************************************************************)
\* the record r cut down to the fields in D
Restrict(r, D) == [f \in D |-> r[f]]

\* bodies carrying any subset of status, quantityNeeded and patientAge, each
\* with values inside and outside its valid range
ValidationBodies ==
    {Restrict([status |-> s, quantityNeeded |-> q, patientAge |-> a], D) :
         s \in {"APPROVED", "NOT_A_STATUS"}, q \in {-1, 0, 1},
         a \in {-1, 0, MaxPatientAge, MaxPatientAge + 1},
         D \in SUBSET {"status", "quantityNeeded", "patientAge"}}

NextPut ==
    \/ \E id \in 1..MaxRequests, body \in ValidationBodies : PUT(id, body)
    \/ \E id \in 1..MaxRequests : DELETE(id)

SpecPut == Init /\ [][NextPut]_vars

\* the body breaks one of the stated rules
InvalidBody(body) ==
    \/ "quantityNeeded" \in DOMAIN body /\ body.quantityNeeded <= 0
    \/ "patientAge" \in DOMAIN body /\ ~(body.patientAge \in 0..150)
    \/ "status" \in DOMAIN body /\ body.status \notin RequestStatus
    \/ DOMAIN body = {}

RequestExists(id) == \E r \in bloodRequests : r.id = id

\* C21: a PUT whose body has quantityNeeded <= 0, patientAge outside 0..150,
\* a status outside the enum or no field at all answers VALIDATION_ERROR and
\* leaves the requests unchanged, whatever else the body holds; PUT and
\* DELETE on an id that does not exist answer NOT_FOUND and change nothing.
C21_InvalidPutChangesNothing ==
    [][ /\ \A id \in 1..MaxRequests, body \in ValidationBodies :
               PUT(id, body)
                   => /\ InvalidBody(body)
                          => /\ response'.code = "VALIDATION_ERROR"
                             /\ UNCHANGED bloodRequests
                      /\ (~InvalidBody(body) /\ ~RequestExists(id))
                          => /\ response'.code = "NOT_FOUND"
                             /\ UNCHANGED bloodRequests
        /\ \A id \in 1..MaxRequests :
               (DELETE(id) /\ ~RequestExists(id))
                   => /\ response'.code = "NOT_FOUND"
                      /\ UNCHANGED bloodRequests ]_vars

\* a PUT with a patient age out of range was rejected after an earlier PUT
\* had stored age 150 and status APPROVED
C21_Witness ==
    /\ response.code = "VALIDATION_ERROR"
    /\ response.message = "Patient age must be between 0 and 150"
    /\ \E r \in bloodRequests :
           r.id = 1 /\ r.patientAge = MaxPatientAge /\ r.status = "APPROVED"

(***************************************************************************)
(* POST /api/blood-requests: validation, two lookups, one create; three    *)
(* separate statements without a transaction.                              *)
(***************************************************************************)
RequiredFields ==
    {"requesterId", "bloodBankId", "bloodGroup", "quantityNeeded",
     "patientName", "patientAge", "purpose", "requiredBy"}

NumberFields == {"quantityNeeded", "patientAge"}

\* !body[field]: the field is absent, the number 0 or the empty string
Falsy(body, field) ==
    \/ field \notin DOMAIN body
    \/ IF field \in NumberFields THEN body[field] = 0 ELSE body[field] = ""

\* bodies with every required field, or with one left out, with or without a
\* status; ids of existing and of unknown rows, numbers in and out of range
PostBodies ==
    {Restrict([requesterId |-> requesterId, bloodBankId |-> bloodBankId,
               bloodGroup |-> "O_POSITIVE", quantityNeeded |-> quantityNeeded,
               patientName |-> patientName, patientAge |-> patientAge,
               purpose |-> "Surgery", requiredBy |-> "2025-02-01",
               status |-> "FULFILLED"], D) :
         requesterId \in {"u2", "nobody"}, bloodBankId \in {"bb1", "nowhere"},
         quantityNeeded \in {-1, 0, 1}, patientName \in {"", "P"},
         patientAge \in {-1, 0, MaxPatientAge, MaxPatientAge + 1},
         D \in {(RequiredFields \cup extra) \ missing :
                    extra \in {{}, {"status"}},
                    missing \in {{}} \cup {{f} : f \in RequiredFields}}}

\* the validation and the two findUnique calls
POST_Validate(c, body) ==
    /\ proc[c] = Idle
    /\ Cardinality(bloodRequests) + Cardinality(OpenCreates) < MaxRequests
    /\ IF \E field \in RequiredFields : Falsy(body, field)
       THEN /\ response' = ValidationError("Missing required fields")
            /\ UNCHANGED proc
       ELSE IF body.quantityNeeded <= 0
       THEN /\ response' = ValidationError("Quantity needed must be greater than 0")
            /\ UNCHANGED proc
       ELSE IF PatientAgeOutOfRange(body.patientAge)
       THEN /\ response' = ValidationError("Patient age must be between 0 and 150")
            /\ UNCHANGED proc
       ELSE IF body.requesterId \notin DOMAIN users
       THEN /\ response' = [ok |-> FALSE, code |-> "NOT_FOUND",
                            message |-> "Requester not found"]
            /\ UNCHANGED proc
       ELSE IF \A bank \in bloodBanks : bank.id # body.bloodBankId
       THEN /\ response' = [ok |-> FALSE, code |-> "NOT_FOUND",
                            message |-> "Blood bank not found"]
            /\ UNCHANGED proc
       ELSE /\ proc' = [proc EXCEPT ![c] = [op |-> "POST", pc |-> "create",
                                            body |-> body]]
            /\ UNCHANGED response
    /\ UNCHANGED <<bloodInventory, bloodRequests, donations, users, now,
                   bloodBanks, hospitals>>

\* the row prisma.bloodRequest.create inserts
NewPendingRequest(id, body) ==
    [id |-> id,
     requesterId |-> body.requesterId,
     bloodBankId |-> body.bloodBankId,
     bloodGroup |-> body.bloodGroup,
     quantityNeeded |-> body.quantityNeeded,
     patientAge |-> body.patientAge,
     status |-> "PENDING",
     approvedAt |-> NULL_DATE,
     fulfilledAt |-> NULL_DATE]

POST_Create_NoForeignKey(c) ==
    /\ proc[c].op = "POST"
    /\ proc[c].pc = "create"
    /\ proc' = [proc EXCEPT ![c] = Idle]
    /\ bloodRequests' = bloodRequests \cup
           {NewPendingRequest(FreshId(bloodRequests), proc[c].body)}
    /\ response' = [ok |-> TRUE, code |-> "CREATED"]
    /\ UNCHANGED <<bloodInventory, donations, users, now, bloodBanks, hospitals>>

\* prisma.bloodRequest.create; a foreign key whose parent row is gone by now
\* rejects the INSERT with P2003
POST_Create(c) ==
    /\ proc[c].op = "POST"
    /\ proc[c].pc = "create"
    /\ proc' = [proc EXCEPT ![c] = Idle]
    /\ IF \/ proc[c].body.requesterId \notin DOMAIN users
          \/ \A bank \in bloodBanks : bank.id # proc[c].body.bloodBankId
       THEN /\ response' = [ok |-> FALSE, code |-> "INVALID_REFERENCE"]
            /\ UNCHANGED bloodRequests
       ELSE /\ bloodRequests' = bloodRequests \cup
                   {NewPendingRequest(FreshId(bloodRequests), proc[c].body)}
            /\ response' = [ok |-> TRUE, code |-> "CREATED"]
    /\ UNCHANGED <<bloodInventory, donations, users, now, bloodBanks, hospitals>>

POST(c) ==
    \/ \E body \in PostBodies : POST_Validate(c, body)
    \/ POST_Create(c)

InitPost ==
    /\ bloodInventory = InitDeleteInventory
    /\ bloodRequests = {}
    /\ donations = {}
    /\ users = InitUsers
    /\ bloodBanks = InitBloodBanks
    /\ hospitals = InitHospitals
    /\ now = 1
    /\ proc = [c \in Callers |-> Idle]
    /\ response = NoResponse

NextPost ==
    \/ \E c \in Callers : POST(c)
    \/ \E id \in Users : deleteUser(id)
    \/ \E id \in BloodBanks : deleteBloodBank(id)

SpecPost == InitPost /\ [][NextPost]_vars

\* the step answers a POST with a 400 or a 404
PostRejected ==
    response'.code \in {"VALIDATION_ERROR", "NOT_FOUND", "INVALID_REFERENCE"}

\* C22: POST creates a request only from a body that has every required
\* field, quantityNeeded > 0 and patientAge in 0..150, and only while the
\* requester and the blood bank exist; the created request is PENDING
\* whatever status the body carries, and a rejected call creates nothing.
C22_PostCreatesOnlyValidPending ==
    [][ /\ \A r \in CreatedRequests :
               /\ r.status = "PENDING"
               /\ r.quantityNeeded > 0
               /\ r.patientAge \in 0..150
               /\ r.requesterId \in DOMAIN users
               /\ \E bank \in bloodBanks : bank.id = r.bloodBankId
               /\ \E c \in Callers :
                      /\ proc[c].op = "POST"
                      /\ RequiredFields \subseteq DOMAIN proc[c].body
                      /\ r = NewPendingRequest(r.id, proc[c].body)
               /\ Cardinality(bloodRequests') = Cardinality(bloodRequests) + 1
        /\ PostRejected => UNCHANGED bloodRequests ]_vars

\* a body carrying status FULFILLED and patient age 150 was stored as a
\* PENDING request, and a later call was rejected
C22_Witness ==
    /\ \E r \in bloodRequests :
           r.status = "PENDING" /\ r.patientAge = MaxPatientAge /\ r.requesterId = "u2"
    /\ Cardinality(bloodRequests) = 1
    /\ response.code = "NOT_FOUND"
    /\ \A c \in Callers : proc[c] = Idle

\* every required field is supplied with a value in its valid range
ValidPostBody(body) ==
    /\ RequiredFields \subseteq DOMAIN body
    /\ \A field \in RequiredFields \ NumberFields : body[field] # ""
    /\ body.quantityNeeded > 0
    /\ body.patientAge \in 0..150

\* C30 (as stated): POST accepts every body whose required fields are all
\* supplied with values in their valid ranges, every patientAge from 0 to 150
\* included, when the requester and the blood bank exist.
C30_PostAcceptsEveryValidBody ==
    [][ \A c \in Callers, body \in PostBodies :
          ( /\ POST_Validate(c, body)
            /\ ValidPostBody(body)
            /\ body.requesterId \in DOMAIN users
            /\ \E bank \in bloodBanks : bank.id = body.bloodBankId )
              => response'.code # "VALIDATION_ERROR" ]_vars

(***************************************************************************)
(* The seed script: a sequence of autocommitted statements, run from the   *)
(* command line, one run at a time, on an empty or on a seeded database.   *)
(* A statement that throws ends the run.                                   *)
(***************************************************************************)
SeedBloodGroups ==
    <<"A_POSITIVE", "A_NEGATIVE", "B_POSITIVE", "B_NEGATIVE",
      "AB_POSITIVE", "AB_NEGATIVE", "O_POSITIVE", "O_NEGATIVE">>

SeedBloodBanks == <<"bb1", "bb2">>

\* donor1 (O_POSITIVE, Mumbai) and donor2 (A_POSITIVE, New Delhi)
SeedDonors == <<"u2", "u1">>

\* Math.floor(Math.random() * 50) + 20 and + 15: the ends of the two ranges
SeedQuantities(bloodBankId) ==
    IF bloodBankId = "bb1" THEN {20, 69} ELSE {15, 64}

SeedDonationDate == 1

\* whoever runs the script
Operator == CHOOSE c \in Callers : TRUE

seed_At(c, pc, i) ==
    /\ proc[c].op = "seed"
    /\ proc[c].pc = pc
    /\ proc[c].i = i

seed_Goto(c, pc, i) ==
    proc' = [proc EXCEPT ![c] = [op |-> "seed", pc |-> pc, i |-> i]]

\* main() starts: "Starting database seed..."; the admin upsert
seed_Start(c) ==
    /\ \A o \in Callers : proc[o] = Idle
    /\ seed_Goto(c, "bloodBank", 1)
    /\ response' = [ok |-> TRUE, code |-> "SEED_STARTED"]
    /\ UNCHANGED <<bloodInventory, bloodRequests, donations, users, now,
                   bloodBanks, hospitals>>

\* prisma.bloodBank.upsert with update: {}
seed_UpsertBloodBank(c) ==
    /\ proc[c].op = "seed"
    /\ proc[c].pc = "bloodBank"
    /\ LET id == SeedBloodBanks[proc[c].i]
       IN bloodBanks' =
              IF \E bank \in bloodBanks : bank.id = id THEN bloodBanks
              ELSE bloodBanks \cup {findUniqueBloodBank(InitBloodBanks, id)}
    /\ IF proc[c].i < Len(SeedBloodBanks)
       THEN seed_Goto(c, "bloodBank", proc[c].i + 1)
       ELSE seed_Goto(c, "inventory", 1)
    /\ UNCHANGED <<bloodInventory, bloodRequests, donations, users, now,
                   response, hospitals>>

\* the upsert with update: {} overwriting the quantity of an existing row
seedInventoryUpsert_Overwrites(rows, b, g, q) ==
    IF UniqueViolation(rows, b, g)
    THEN {IF r.bloodBankId = b /\ r.bloodGroup = g
          THEN [r EXCEPT !.quantity = q] ELSE r : r \in rows}
    ELSE rows \cup {NewInventoryRow(rows, b, g, q)}

\* prisma.bloodInventory.upsert({where: key, update: {}, create: {quantity}})
seedInventoryUpsert(rows, b, g, q) ==
    IF UniqueViolation(rows, b, g)
    THEN rows
    ELSE rows \cup {NewInventoryRow(rows, b, g, q)}

\* one iteration of one of the two for loops: iterations 1..8 are bank 1,
\* 9..16 are bank 2
seed_UpsertInventory(c) ==
    /\ proc[c].op = "seed"
    /\ proc[c].pc = "inventory"
    /\ LET n == Len(SeedBloodGroups)
           b == SeedBloodBanks[((proc[c].i - 1) \div n) + 1]
           g == SeedBloodGroups[((proc[c].i - 1) % n) + 1]
       IN /\ \E q \in SeedQuantities(b) :
                 bloodInventory' = seedInventoryUpsert(bloodInventory, b, g, q)
          /\ IF proc[c].i < n * Len(SeedBloodBanks)
             THEN seed_Goto(c, "inventory", proc[c].i + 1)
             ELSE seed_Goto(c, "hospital", 1)
    /\ UNCHANGED <<bloodRequests, donations, users, now, response, bloodBanks,
                   hospitals>>

\* prisma.hospital.upsert with update: {}
seed_UpsertHospital(c) ==
    /\ seed_At(c, "hospital", 1)
    /\ hospitals' = IF \E h \in hospitals : h.id = "h1" THEN hospitals
                    ELSE hospitals \cup InitHospitals
    /\ seed_Goto(c, "donor", 1)
    /\ UNCHANGED <<bloodInventory, bloodRequests, donations, users, now,
                   response, bloodBanks>>

\* prisma.user.upsert with update: {}; create sets no lastDonation
seed_UpsertDonor(c) ==
    /\ proc[c].op = "seed"
    /\ proc[c].pc = "donor"
    /\ LET id == SeedDonors[proc[c].i]
       IN users' = [u \in DOMAIN users \cup {id} |->
                        IF u \in DOMAIN users THEN users[u] ELSE InitUsers[u]]
    /\ IF proc[c].i < Len(SeedDonors)
       THEN seed_Goto(c, "donor", proc[c].i + 1)
       ELSE seed_Goto(c, "donation", 1)
    /\ UNCHANGED <<bloodInventory, bloodRequests, donations, now, response,
                   bloodBanks, hospitals>>

\* the sample donation of donor1 at bank 1
SeedDonation(id) ==
    [id |-> id, donorId |-> SeedDonors[1], bloodBankId |-> SeedBloodBanks[1],
     bloodGroup |-> "O_POSITIVE", quantity |-> 1, status |-> "COMPLETED",
     isEligible |-> TRUE, unitSerialNumber |-> "UNIT-2025-001",
     donationDate |-> SeedDonationDate]

\* prisma.donation.create: a plain INSERT, which the unique index on
\* unitSerialNumber rejects once the sample donation exists; main() then
\* rejects and the process exits with code 1
seed_CreateDonation(c) ==
    /\ seed_At(c, "donation", 1)
    /\ proc' = [proc EXCEPT ![c] = Idle]
    /\ IF SerialTaken(donations, NULL_ID, "UNIT-2025-001")
       THEN /\ response' = [ok |-> FALSE, code |-> "SEED_FAILED"]
            /\ UNCHANGED donations
       ELSE /\ donations' = donations \cup {SeedDonation("seed")}
            /\ response' = [ok |-> TRUE, code |-> "SEEDED"]
    /\ UNCHANGED <<bloodInventory, bloodRequests, users, now, bloodBanks, hospitals>>

seed(c) ==
    \/ seed_Start(c)
    \/ seed_UpsertBloodBank(c)
    \/ seed_UpsertInventory(c)
    \/ seed_UpsertHospital(c)
    \/ seed_UpsertDonor(c)
    \/ seed_CreateDonation(c)

\* the empty database the migration leaves
InitSeed ==
    /\ bloodInventory = {}
    /\ bloodRequests = {}
    /\ donations = {}
    /\ users = [u \in {} |-> DonorRow("O_POSITIVE", "Mumbai")]
    /\ bloodBanks = {}
    /\ hospitals = {}
    /\ now = 1
    /\ proc = [c \in Callers |-> Idle]
    /\ response = NoResponse

NextSeed == seed(Operator)

SpecSeed == InitSeed /\ [][NextSeed]_vars

\* a run of the seed has reached its end: the sample donation is stored
SeededOnce == \E d \in donations : d.unitSerialNumber = "UNIT-2025-001"

\* C23: once the seed has run, each of the two seeded blood banks has
\* exactly 8 inventory rows, one per blood group, and no step of a later run
\* changes the quantity of an existing inventory row.
C23_SeedKeepsEightRowsPerBank ==
    [][ /\ SeededOnce' =>
               \A i \in DOMAIN SeedBloodBanks :
                   /\ Cardinality({row \in bloodInventory' :
                          row.bloodBankId = SeedBloodBanks[i]}) = 8
                   /\ \A j \in DOMAIN SeedBloodGroups :
                          \E row \in bloodInventory' :
                              /\ row.bloodBankId = SeedBloodBanks[i]
                              /\ row.bloodGroup = SeedBloodGroups[j]
        /\ \A row \in bloodInventory :
               \E kept \in bloodInventory' :
                   kept.id = row.id /\ kept.quantity = row.quantity ]_vars

\* a second run has ended, on the rejected sample donation, with the rows of
\* the first run still holding the quantities drawn then
C23_Witness ==
    /\ response.code = "SEED_FAILED"
    /\ proc[Operator] = Idle
    /\ Cardinality(bloodInventory) = 16
    /\ Quantity(bloodInventory, "bb1", "O_POSITIVE") = 20
    /\ Quantity(bloodInventory, "bb1", "A_POSITIVE") = 69
    /\ Quantity(bloodInventory, "bb2", "O_NEGATIVE") = 64

\* C26 (as stated): in every state reached from the seeded database, a donor
\* with a COMPLETED donation that has isEligible = true has a lastDonation,
\* and it is not earlier than the donationDate of any such donation.
C26_LastDonationCoversCompletedDonations ==
    \A d \in donations :
        (d.status = "COMPLETED" /\ d.isEligible /\ d.donorId \in DOMAIN users)
            => /\ users[d.donorId].lastDonation # NULL_DATE
               /\ users[d.donorId].lastDonation >= d.donationDate

(***************************************************************************)
(* Sequences of approveBloodRequest calls on several pending requests.     *)
(***************************************************************************)
\* two pending O_POSITIVE requests of any size, not yet assigned to the
\* bank that approves them
InitApproveRequests ==
    {{[id |-> 1, requesterId |-> "u2", bloodBankId |-> "bb2",
       bloodGroup |-> "O_POSITIVE", quantityNeeded |-> q1,
       patientAge |-> DemoPatientAge, status |-> "PENDING",
       approvedAt |-> NULL_DATE, fulfilledAt |-> NULL_DATE],
      [id |-> 2, requesterId |-> "u1", bloodBankId |-> "bb2",
       bloodGroup |-> "O_POSITIVE", quantityNeeded |-> q2,
       patientAge |-> DemoPatientAge, status |-> "PENDING",
       approvedAt |-> NULL_DATE, fulfilledAt |-> NULL_DATE]} :
         q1 \in 1..MaxNeed, q2 \in 1..MaxNeed}

InitApprove ==
    /\ bloodInventory \in InitInventory
    /\ bloodRequests \in InitApproveRequests
    /\ donations = {}
    /\ users = InitUsers
    /\ bloodBanks = InitBloodBanks
    /\ hospitals = InitHospitals
    /\ now = 1
    /\ proc = [c \in Callers |-> Idle]
    /\ response = NoResponse

NextApprove == \E c \in Callers : approveBloodRequest(c)

SpecApprove == InitApprove /\ [][NextApprove]_vars

\* the requests in APPROVED status assigned to bank b for group g
ApprovedAt(b, g) ==
    {r \in bloodRequests :
         r.status = "APPROVED" /\ r.bloodBankId = b /\ r.bloodGroup = g}

\* C24 (as stated): over any sequence of approveBloodRequest calls, the
\* quantities needed by the APPROVED requests assigned to a bank never sum
\* to more than the bank's inventory quantity for the group.
C24_ApprovedNeverExceedInventory ==
    \A b \in BloodBanks, g \in BloodGroups :
        SumNeeded(ApprovedAt(b, g)) <= Quantity(bloodInventory, b, g)

(***************************************************************************)
(* The two transaction operations side by side.                            *)
(***************************************************************************)
\* requests to the bank that holds the donation, and completions of that
\* donation that leave its unit serial alone
EngineRequestData == {requestData \in RequestData : requestData.bloodBankId = "bb1"}

NextEngine ==
    \E c \in Callers :
        \/ \E requestData \in EngineRequestData :
               createRequest_CheckAndCreate(c, requestData)
        \/ createRequest_Decrement(c)
        \/ createRequest_Commit(c)
        \/ createRequest_Fault(c)
        \/ \E body \in TimedBodies : completeDonation_FindDonation(c, "d1", body)
        \/ completeDonation_UpdateDonation(c)
        \/ completeDonation_UpsertInventory(c)
        \/ completeDonation_UpsertCreate(c)
        \/ completeDonation_UpdateUser(c)
        \/ completeDonation_Fault(c)

\* one scheduled donation whose pair has no inventory row yet: the first
\* completion creates the row that later requests and completions move
InitEngine ==
    /\ bloodInventory = {[id |-> 1, bloodBankId |-> "bb1",
                          bloodGroup |-> "O_POSITIVE", quantity |-> MaxQty]}
    /\ bloodRequests = {}
    /\ donations = {d \in InitDonations : d.id = "d1"}
    /\ users = InitUsers
    /\ bloodBanks = InitBloodBanks
    /\ hospitals = InitHospitals
    /\ now = 1
    /\ proc = [c \in Callers |-> Idle]
    /\ response = NoResponse

SpecEngine == InitEngine /\ [][NextEngine]_vars

\* units this step's committing eligible completions add to (b, g)
CompletedUnits(b, g) ==
    IF \E c \in Callers : /\ CompletionCommits(c)
                          /\ proc[c].body.isEligible
                          /\ proc[c].donation.bloodBankId = b
                          /\ proc[c].donation.bloodGroup = g
    THEN 1 ELSE 0

\* units this step's created requests take from (b, g)
RequestedUnits(b, g) ==
    SumNeeded({r \in CreatedRequests : r.bloodBankId = b /\ r.bloodGroup = g})

\* C25: in every interleaving of createBloodRequestWithInventoryUpdate and
\* completeDonation calls each (bank, group) quantity is conserved: every step
\* moves it by the eligible completions that commit in the step minus the
\* quantityNeeded of the requests created in the step, so that at any time it
\* equals the initial quantity plus the committed eligible completions minus
\* the sum of the created requests; a call that fails or is rolled back
\* creates no request and moves no quantity.
C25_QuantityIsConserved ==
    [][ /\ \A b \in BloodBanks, g \in BloodGroups :
              Quantity(bloodInventory', b, g) =
                  Quantity(bloodInventory, b, g)
                    + CompletedUnits(b, g) - RequestedUnits(b, g)
        /\ \A c \in Callers :
              (CreateRollsBack(c) \/ CompletionFails(c)) =>
                  /\ bloodInventory' = bloodInventory
                  /\ bloodRequests' = bloodRequests
        /\ \A c \in Callers :
              CreateCommits(c) =>
                  \E r \in CreatedRequests :
                      /\ r.bloodBankId = proc[c].requestData.bloodBankId
                      /\ r.bloodGroup = proc[c].requestData.bloodGroup
                      /\ r.quantityNeeded = proc[c].requestData.quantityNeeded
      ]_vars

\* the donation was completed twice as eligible and a request for both units
\* was created in between or after: the row the first completion created is
\* back at 0, with one request on record
C25_Witness ==
    /\ \A c \in Callers : proc[c] = Idle
    /\ InventoryRows(bloodInventory, "bb1", "A_POSITIVE") # {}
    /\ Quantity(bloodInventory, "bb1", "A_POSITIVE") = 0
    /\ \E r \in bloodRequests : /\ r.bloodBankId = "bb1"
                                /\ r.bloodGroup = "A_POSITIVE"
                                /\ r.quantityNeeded = 2
    /\ Quantity(bloodInventory, "bb1", "O_POSITIVE") < MaxQty

(***************************************************************************)
(* Blood compatibility helpers: the BLOOD_COMPATIBILITY table and the two  *)
(* functions that read it.                                                 *)
(***************************************************************************)
\* enum BloodGroup
BloodGroup ==
    {"A_POSITIVE", "A_NEGATIVE", "B_POSITIVE", "B_NEGATIVE",
     "AB_POSITIVE", "AB_NEGATIVE", "O_POSITIVE", "O_NEGATIVE"}

\* the keys of BLOOD_COMPATIBILITY in insertion order (Object.entries)
CompatibilityKeys ==
    <<"O_NEGATIVE", "O_POSITIVE", "A_NEGATIVE", "A_POSITIVE",
      "B_NEGATIVE", "B_POSITIVE", "AB_NEGATIVE", "AB_POSITIVE">>

BLOOD_COMPATIBILITY ==
    [d \in BloodGroup |->
        CASE d = "O_NEGATIVE" ->
                <<"O_NEGATIVE", "O_POSITIVE", "A_NEGATIVE", "A_POSITIVE",
                  "B_NEGATIVE", "B_POSITIVE", "AB_NEGATIVE", "AB_POSITIVE">>
          [] d = "O_POSITIVE" ->
                <<"O_POSITIVE", "A_POSITIVE", "B_POSITIVE", "AB_POSITIVE">>
          [] d = "A_NEGATIVE" ->
                <<"A_NEGATIVE", "A_POSITIVE", "AB_NEGATIVE", "AB_POSITIVE">>
          [] d = "A_POSITIVE" -> <<"A_POSITIVE", "AB_POSITIVE">>
          [] d = "B_NEGATIVE" ->
                <<"B_NEGATIVE", "B_POSITIVE", "AB_NEGATIVE", "AB_POSITIVE">>
          [] d = "B_POSITIVE" -> <<"B_POSITIVE", "AB_POSITIVE">>
          [] d = "AB_NEGATIVE" -> <<"AB_NEGATIVE", "AB_POSITIVE">>
          [] d = "AB_POSITIVE" -> <<"AB_POSITIVE">>]

\* Array.prototype.includes
includes(array, x) == \E i \in 1..Len(array) : array[i] = x

canDonateTo(donorBloodGroup) == BLOOD_COMPATIBILITY[donorBloodGroup]

\* Object.entries(..).filter(recipients includes recipient).map(donor)
canReceiveFrom_Swapped(recipientBloodGroup) ==
    LET keeps(donor) == includes(BLOOD_COMPATIBILITY[recipientBloodGroup], donor)
    IN  SelectSeq(CompatibilityKeys, keeps)

canReceiveFrom(recipientBloodGroup) ==
    LET keeps(donor) == includes(BLOOD_COMPATIBILITY[donor], recipientBloodGroup)
    IN  SelectSeq(CompatibilityKeys, keeps)

\* a caller evaluates one of the two helpers ..
compatibility_Call(c, helper, bloodGroup) ==
    /\ proc[c] = Idle
    /\ proc' = [proc EXCEPT ![c] =
                   [op |-> helper, pc |-> "return", bloodGroup |-> bloodGroup]]
    /\ UNCHANGED <<bloodInventory, bloodRequests, donations, users, now,
                   response, bloodBanks, hospitals>>

\* .. and gets the array back
compatibility_Return(c) ==
    /\ proc[c].op \in {"canDonateTo", "canReceiveFrom"}
    /\ response' = [ok |-> TRUE, code |-> proc[c].op,
                    bloodGroup |-> proc[c].bloodGroup,
                    data |-> IF proc[c].op = "canDonateTo"
                             THEN canDonateTo(proc[c].bloodGroup)
                             ELSE canReceiveFrom(proc[c].bloodGroup)]
    /\ proc' = [proc EXCEPT ![c] = Idle]
    /\ UNCHANGED <<bloodInventory, bloodRequests, donations, users, now,
                   bloodBanks, hospitals>>

NextCompatibility ==
    \E c \in Callers :
        \/ \E bloodGroup \in BloodGroup :
              \/ compatibility_Call(c, "canDonateTo", bloodGroup)
              \/ compatibility_Call(c, "canReceiveFrom", bloodGroup)
        \/ compatibility_Return(c)

SpecCompatibility == InitDon /\ [][NextCompatibility]_vars

\* the set of groups in an array
Elements(array) == {array[i] : i \in 1..Len(array)}

\* C28: r is in canDonateTo(d) exactly when d is in canReceiveFrom(r); every
\* group is in its own canDonateTo; canDonateTo(O_NEGATIVE) and
\* canReceiveFrom(AB_POSITIVE) are all 8 groups.
C28_CompatibilityIsSymmetric ==
    /\ response.code = "canDonateTo" =>
          LET d == response.bloodGroup
          IN /\ \A r \in BloodGroup :
                    r \in Elements(response.data)
                        <=> d \in Elements(canReceiveFrom(r))
             /\ d \in Elements(response.data)
             /\ d = "O_NEGATIVE" =>
                    /\ Elements(response.data) = BloodGroup
                    /\ Len(response.data) = 8
    /\ response.code = "canReceiveFrom" =>
          LET r == response.bloodGroup
          IN /\ \A d \in BloodGroup :
                    d \in Elements(response.data)
                        <=> r \in Elements(canDonateTo(d))
             /\ r = "AB_POSITIVE" =>
                    /\ Elements(response.data) = BloodGroup
                    /\ Len(response.data) = 8

\* canReceiveFrom(AB_POSITIVE) answered all 8 groups while the other caller
\* is evaluating canDonateTo(O_NEGATIVE)
C28_Witness ==
    /\ response.code = "canReceiveFrom"
    /\ response.bloodGroup = "AB_POSITIVE"
    /\ Len(response.data) = 8
    /\ \E c \in Callers : /\ proc[c].op = "canDonateTo"
                          /\ proc[c].bloodGroup = "O_NEGATIVE"

(***************************************************************************)
(* The three eligibility checks on a clock that counts hours, so that the  *)
(* Math.floor of the two day computations and the exact comparison of the  *)
(* query filter can differ.                                                *)
(***************************************************************************)
HoursPerDay == 24
MaxHours == 3           \* hours the clock runs past the 90th day

\* Math.floor((Date.now() - lastDonationDate.getTime()) / (1000*60*60*24))
daysSince(lastDonationDate) == (now - lastDonationDate) \div HoursPerDay

\* isEligibleToDonate(lastDonationDate)
isEligibleToDonate(lastDonationDate) ==
    IF lastDonationDate = NULL_DATE THEN TRUE
    ELSE daysSince(lastDonationDate) >= EligibilityDays

\* scheduleDonation goes on to create the donation
schedulePasses(lastDonation) ==
    ~ (/\ lastDonation # NULL_DATE
       /\ daysSince(lastDonation) < EligibilityDays)

\* OR: [{lastDonation: null}, {lastDonation: {lt: ninetyDaysAgo}}], with
\* ninetyDaysAgo the current instant moved back 90 calendar days
filterPasses(lastDonation) ==
    \/ lastDonation = NULL_DATE
    \/ lastDonation < now - EligibilityDays * HoursPerDay

TickHour ==
    /\ now < 1 + EligibilityDays * HoursPerDay + MaxHours
    /\ now' = now + 1
    /\ UNCHANGED <<bloodInventory, bloodRequests, donations, users, bloodBanks,
                   hospitals, proc, response>>

\* one of the three checks is evaluated for donor u
eligibility_Check(u, check) ==
    /\ response' = [ok |-> TRUE, code |-> check, donor |-> u,
                    eligible |->
                       CASE check = "findEligibleDonors" ->
                                filterPasses(users[u].lastDonation)
                         [] check = "isEligibleToDonate" ->
                                isEligibleToDonate(users[u].lastDonation)
                         [] OTHER -> schedulePasses(users[u].lastDonation)]
    /\ UNCHANGED <<bloodInventory, bloodRequests, donations, users, now,
                   bloodBanks, hospitals, proc>>

\* u1 has never donated, or donated at hour 1 or hour 2; the clock starts on
\* the 89th day after hour 1
InitEligibility ==
    /\ bloodInventory = {}
    /\ bloodRequests = {}
    /\ donations = {}
    /\ \E last \in {NULL_DATE, 1, 2} :
          users = [InitUsers EXCEPT !["u1"].lastDonation = last]
    /\ bloodBanks = InitBloodBanks
    /\ hospitals = InitHospitals
    /\ now = 1 + (EligibilityDays - 1) * HoursPerDay
    /\ proc = [c \in Callers |-> Idle]
    /\ response = NoResponse

NextEligibility ==
    \/ TickHour
    \/ \E u \in Users :
          \/ eligibility_Check(u, "findEligibleDonors")
          \/ eligibility_Check(u, "isEligibleToDonate")
          \/ eligibility_Check(u, "scheduleDonation")

SpecEligibility == InitEligibility /\ [][NextEligibility]_vars

\* C27 (as stated): the three eligibility checks give the same answer for
\* every lastDonation and every current time, at exactly 90 days after the
\* last donation and at 89 days 23 hours included.
C27_EligibilityChecksAgree ==
    \A u \in Users :
        /\ filterPasses(users[u].lastDonation)
              = isEligibleToDonate(users[u].lastDonation)
        /\ schedulePasses(users[u].lastDonation)
              = isEligibleToDonate(users[u].lastDonation)
        /\ (response.code \in {"findEligibleDonors", "isEligibleToDonate",
                               "scheduleDonation"}
              /\ response.donor = u)
              => response.eligible = isEligibleToDonate(users[u].lastDonation)

(***************************************************************************)
(* GET /api/blood-requests: one page of the matching requests, newest      *)
(* first, and the pagination metadata.                                     *)
(***************************************************************************)
MaxPage == 3            \* page numbers a caller asks for
MaxLimit == 2           \* page sizes a caller asks for

\* if (status) where.status = status; if (bloodGroup) where.bloodGroup = ..
ListWhere(r, status, bloodGroup) ==
    /\ status # UNDEFINED => r.status = status
    /\ bloodGroup # UNDEFINED => r.bloodGroup = bloodGroup

\* orderBy: {createdAt: "desc"}; rows of equal createdAt come in any order
CreatedAtDesc(seq) ==
    \A i, j \in DOMAIN seq : i < j => seq[i].createdAt >= seq[j].createdAt

\* Math.ceil(total / limit)
ceil(total, limit) == (total + limit - 1) \div limit

\* skip, take over the ordered rows
SkipTake(seq, skip, take) ==
    [i \in 1..(IF Len(seq) - skip < 0 THEN 0
               ELSE IF Len(seq) - skip < take THEN Len(seq) - skip
               ELSE take) |-> seq[skip + i]]

\* The handler.  A caller that asked for page 1 is reading the list page by
\* page: proc keeps the ids received so far and the page to ask for next.
GET(c, page, limit, status, bloodGroup) ==
    /\ \/ proc[c] = Idle
       \/ /\ proc[c].op = "GET"
          /\ proc[c].page = page
          /\ proc[c].limit = limit
          /\ proc[c].where = [status |-> status, bloodGroup |-> bloodGroup]
    /\ LET skip == (page - 1) * limit
           matching == {r \in bloodRequests : ListWhere(r, status, bloodGroup)}
           total == Cardinality(matching)
           reading == proc[c].op = "GET" \/ page = 1
           before == IF proc[c].op = "GET" THEN proc[c].seen ELSE <<>>
       IN \E ordered \in Orderings(matching) :
            /\ CreatedAtDesc(ordered)
            /\ LET requests == SkipTake(ordered, skip, limit)
                   ids == [i \in DOMAIN requests |-> requests[i].id]
                   pagination ==
                       [page |-> page, limit |-> limit, total |-> total,
                        totalPages |-> ceil(total, limit),
                        hasNext |-> page * limit < total,
                        hasPrev |-> page > 1]
               IN /\ response' =
                        [ok |-> TRUE, code |-> "LIST",
                         where |-> [status |-> status, bloodGroup |-> bloodGroup],
                         data |-> ids, pagination |-> pagination,
                         seen |-> IF reading THEN before \o ids ELSE <<>>,
                         complete |-> reading /\ ~pagination.hasNext]
                  /\ proc' = [proc EXCEPT ![c] =
                        IF reading /\ pagination.hasNext
                        THEN [op |-> "GET", pc |-> "nextPage",
                              page |-> page + 1, limit |-> limit,
                              where |-> [status |-> status,
                                         bloodGroup |-> bloodGroup],
                              seen |-> before \o ids]
                        ELSE Idle]
    /\ UNCHANGED <<bloodInventory, bloodRequests, donations, users, now,
                   bloodBanks, hospitals>>

\* three requests, created at instant 1 or 2 each (createdAt has millisecond
\* precision, so two requests can carry the same value); the first one may
\* have been cancelled
InitListRequests ==
    {{[id |-> i, requesterId |-> "u2", bloodBankId |-> "bb2",
       bloodGroup |-> "O_POSITIVE", quantityNeeded |-> 1,
       patientAge |-> DemoPatientAge, status |-> status[i],
       approvedAt |-> NULL_DATE, fulfilledAt |-> NULL_DATE,
       createdAt |-> createdAt[i]] : i \in 1..MaxRequests} :
         status \in {st \in [1..MaxRequests -> {"PENDING", "CANCELLED"}] :
                        \A i \in 2..MaxRequests : st[i] = "PENDING"},
         createdAt \in [1..MaxRequests -> 1..2]}

InitList ==
    /\ bloodInventory = {}
    /\ bloodRequests \in InitListRequests
    /\ donations = {}
    /\ users = InitUsers
    /\ bloodBanks = InitBloodBanks
    /\ hospitals = InitHospitals
    /\ now = 1
    /\ proc = [c \in Callers |-> Idle]
    /\ response = NoResponse

NextList ==
    \E c \in Callers, page \in 1..MaxPage, limit \in 1..MaxLimit,
       status \in {UNDEFINED, "PENDING"},
       bloodGroup \in {UNDEFINED, "A_POSITIVE"} :
          GET(c, page, limit, status, bloodGroup)

SpecList == InitList /\ [][NextList]_vars

\* the requests the filters of the last answer select
Matching ==
    {r \in bloodRequests :
        ListWhere(r, response.where.status, response.where.bloodGroup)}

\* C29 (as stated): every answer has totalPages = ceil(T / limit), hasPrev
\* exactly when page > 1 and hasNext exactly when page < totalPages; and with
\* no writes in between, the pages 1..totalPages together return every
\* matching request exactly once.
C29_PagesCoverEveryRequestOnce ==
    response.code = "LIST" =>
        LET T == Cardinality(Matching)
            p == response.pagination
        IN /\ p.total = T
           /\ p.totalPages * p.limit >= T
           /\ p.totalPages > 0 => (p.totalPages - 1) * p.limit < T
           /\ p.hasPrev <=> p.page > 1
           /\ p.hasNext <=> p.page < p.totalPages
           /\ response.complete =>
                 /\ Len(response.seen) = T
                 /\ \A r \in Matching :
                       Cardinality({i \in DOMAIN response.seen :
                                       response.seen[i] = r.id}) = 1
====
